---- MODULE Spec2Model ----
(***************************************************************************)
(* Verification model of the fastotv player core: the serial packet queue, *)
(* the frame queue, the stream clocks and the synchronization engine of    *)
(* VideoState (src/src/core/video_state.cpp and src/src/video_state.cpp).  *)
(*                                                                         *)
(* Times are integers in milliseconds.  NaN is the value NaN below; every  *)
(* arithmetic helper propagates it the way IEEE doubles do.                *)
(***************************************************************************)
EXTENDS Integers, Sequences, FiniteSets, TLC

(***************************************************************************)
(* Bounds of the model.                                                    *)
(***************************************************************************)
\* seek requests the user may issue in one run
MaxSeeks == 1
\* packets a packet queue may hold before the reader stops reading
MaxPackets == 1
\* milliseconds of system time that pass in one run of SpecClock
MaxTime == 3
\* seek flushes in one run of SpecClock and of SpecPQ
MaxFlush == 2
\* packets the packet queue of SpecPQ holds before the reader stops reading
MaxQueued == 2
\* video frames the decoder emits in one run of SpecRender
MaxFrames == 4
\* the latest time frame_timer takes in SpecSeek
MaxFrameTimer == 1
\* system time of the video_refresh timing model, in steps of 50 ms
MaxNow == 4
\* pictures the video decoder queues in the video_refresh timing model
MaxPictures == 3
\* the largest number of chapters of the input in SpecChapter
MaxChapters == 2
\* the largest loop count (-loop option) of SpecLoop, and the number of
\* restarts followed when the loop count is 0 (loop forever)
MaxLoop == 2

(***************************************************************************)
(* Program constants.                                                      *)
(***************************************************************************)
VIDEO_PICTURE_QUEUE_SIZE == 3
SAMPLE_QUEUE_SIZE == 9
SUBPICTURE_QUEUE_SIZE == 16
\* thresholds of the synchronization engine, in milliseconds
AV_SYNC_THRESHOLD_MIN == 40
AV_SYNC_THRESHOLD_MAX == 100
AV_SYNC_FRAMEDUP_THRESHOLD == 100
AV_NOSYNC_THRESHOLD == 10000
\* maximum audio speed change to get correct sync, in percent
SAMPLE_CORRECTION_PERCENT_MAX == 10
\* A-V differences averaged before the audio correction starts
AUDIO_DIFF_AVG_NB == 20
EXTERNAL_CLOCK_MIN_FRAMES == 2
EXTERNAL_CLOCK_MAX_FRAMES == 10

(***************************************************************************)
(* Serial packet queue (class PacketQueue).  A packet is a record          *)
(* [serial, kind], kind being "data" or "flush" (the flush_pkt sentinel).  *)
(***************************************************************************)
PQ_Init == [list |-> <<>>, serial |-> 0, abort_request |-> FALSE]

\* put(): appends the packet stamped with the queue's serial; declines when aborted
PQ_put(q, kind) ==
  IF q.abort_request THEN q
  ELSE [q EXCEPT !.list = Append(@, [serial |-> q.serial, kind |-> kind])]

\* flush(): drops every queued packet and bumps the serial, under the queue mutex
PQ_flush(q) == [q EXCEPT !.list = <<>>, !.serial = @ + 1]

\* abort(): sets abort_request (and signals the queue's condition variable)
PQ_abort(q) == [q EXCEPT !.abort_request = TRUE]

\* get(): the packet at the head, and the queue without it
PQ_head(q) == Head(q.list)

PQ_pop(q) == [q EXCEPT !.list = Tail(@)]

(***************************************************************************)
(* The packet queue with its counters (class PacketQueue, fields list_,    *)
(* serial_, size_, duration_, abort_request_), as SpecPQ uses it.  An      *)
(* AVPacket is a record [kind, size, duration]; a queued SAVPacket is      *)
(* [pkt, serial].  The PQ_ operators above are this queue seen through the *)
(* serial and the kind of its packets.                                     *)
(***************************************************************************)
\* PacketQueue::flush_pkt(), the discontinuity sentinel
flush_pkt == [kind |-> "flush", size |-> 0, duration |-> 0]

\* the packet put_nullpacket() builds: no data, size 0
null_pkt == [kind |-> "null", size |-> 0, duration |-> 0]

\* the AVPacket of a call that hands none back
NoPacket == [kind |-> "none", size |-> 0, duration |-> 0]

PacketQueue_Init ==
  [list |-> <<>>, serial |-> 0, size |-> 0, duration |-> 0,
   abort_request |-> FALSE]

\* put_private() that stamps the packet with the serial after the queue's
put_private_next_serial(q, pkt) ==
  IF q.abort_request THEN [q |-> q, ret |-> -1, signal |-> FALSE]
  ELSE [q |-> [q EXCEPT !.list = Append(@, [pkt |-> pkt,
                                            serial |-> q.serial + 1]),
                        !.size = @ + pkt.size,
                        !.duration = @ + pkt.duration],
        ret |-> 0, signal |-> TRUE]

\* put_private(): declines (< 0) when aborted, else appends the packet with
\* the queue's serial, adds its size and duration to the counters and signals
\* the condition; signal tells whether a blocked consumer is woken
put_private(q, pkt) ==
  IF q.abort_request THEN [q |-> q, ret |-> -1, signal |-> FALSE]
  ELSE [q |-> [q EXCEPT !.list = Append(@, [pkt |-> pkt, serial |-> q.serial]),
                        !.size = @ + pkt.size,
                        !.duration = @ + pkt.duration],
        ret |-> 0, signal |-> TRUE]

\* put(): put_private() under the queue's mutex
PacketQueue_put(q, pkt) == put_private(q, pkt)

\* put_nullpacket(stream_index)
PacketQueue_put_nullpacket(q) == PacketQueue_put(q, null_pkt)

\* get(pkt, block, serial): < 0 if aborted, > 0 with the packet at the head
\* and its serial, 0 if there is no packet and block is 0; wait tells that
\* the caller waits on the condition instead of returning
PacketQueue_get(q, block) ==
  IF q.abort_request
  THEN [q |-> q, ret |-> -1, pkt |-> NoPacket, serial |-> -1, wait |-> FALSE]
  ELSE IF q.list # <<>>
  THEN [q |-> [q EXCEPT !.list = Tail(@),
                        !.size = @ - Head(q.list).pkt.size,
                        !.duration = @ - Head(q.list).pkt.duration],
        ret |-> 1, pkt |-> Head(q.list).pkt, serial |-> Head(q.list).serial,
        wait |-> FALSE]
  ELSE [q |-> q, ret |-> 0, pkt |-> NoPacket, serial |-> -1, wait |-> block]

\* flush() that forgets the duration counter
PacketQueue_flush_keeps_duration(q) ==
  [q EXCEPT !.list = <<>>, !.size = 0, !.serial = @ + 1]

\* flush(): drops every queued packet, zeroes the counters, bumps the serial
PacketQueue_flush(q) ==
  [q EXCEPT !.list = <<>>, !.size = 0, !.duration = 0, !.serial = @ + 1]

\* abort() that sets the flag without waking the waiters
PacketQueue_abort_silent(q) ==
  [q |-> [q EXCEPT !.abort_request = TRUE], signal |-> FALSE]

\* abort(): sets abort_request and releases the waiters; signal as in put
PacketQueue_abort(q) ==
  [q |-> [q EXCEPT !.abort_request = TRUE], signal |-> TRUE]

PacketQueue_nb_packets(q) == Len(q.list)

PacketQueue_size(q) == q.size

PacketQueue_duration(q) == q.duration

(***************************************************************************)
(* Frame queue (class FrameQueue): a ring of max_size frames.  A frame is  *)
(* a record [serial, allocated].                                           *)
(***************************************************************************)
EmptyFrame == [serial |-> 0, allocated |-> FALSE]

FQ_Init(max_size, keep_last) ==
  [queue |-> [i \in 0..(max_size - 1) |-> EmptyFrame],
   rindex |-> 0, windex |-> 0, size |-> 0, rindex_shown |-> 0,
   max_size |-> max_size, keep_last |-> keep_last]

FQ_nb_remaining(f) == f.size - f.rindex_shown

FQ_rindexShown(f) == f.rindex_shown = 1

FQ_peek(f) == f.queue[(f.rindex + f.rindex_shown) % f.max_size]

FQ_peek_next(f) == f.queue[(f.rindex + f.rindex_shown + 1) % f.max_size]

FQ_peek_last(f) == f.queue[f.rindex]

\* peek_writable() blocks while this holds and the packet queue is not aborted
FQ_full(f) == f.size >= f.max_size

\* push(): commits the slot at windex
FQ_push(f) ==
  [f EXCEPT !.windex = (@ + 1) % f.max_size, !.size = @ + 1]

\* next(): keeps the first shown frame when keep_last, else consumes one
FQ_next(f) ==
  IF f.keep_last /\ f.rindex_shown = 0
  THEN [f EXCEPT !.rindex_shown = 1]
  ELSE [f EXCEPT !.rindex = (@ + 1) % f.max_size, !.size = @ - 1]

(***************************************************************************)
(* State.                                                                  *)
(*                                                                         *)
(* Playback session of core/video_state.cpp (specification Spec): the      *)
(* reader thread, the video decoder thread and the main (event + render)   *)
(* thread around the video packet queue and the video frame queue.         *)
(***************************************************************************)
VARIABLES
  vq,             \* video_engine_->packet_queue_
  vfq,            \* video_engine_->frame_queue_
  seek_req,       \* VideoState::seek_req
  abort_request,  \* VideoState::abort_request
  paused,         \* VideoState::paused_
  step,           \* VideoState::step
  force_refresh,  \* VideoState::force_refresh
  alloc_event,    \* an FF_ALLOC_EVENT is pending in the SDL event queue
  video_open,     \* video_st != NULL
  pc_main,        \* position of the main thread
  pc_rd,          \* position of read_thread
  pc_dec,         \* position of video_thread
  pkt_serial,     \* viddec->pktSerial()
  dec_exit,       \* why video_thread left its loop
  vr_took,        \* this video_refresh call took a frame for display
  shown,          \* the frame last handed to video_display
  fqs,            \* SpecFQ: one frame queue with its producer and consumer
  cl,             \* SpecClose: StreamComponentClose against QueuePicture
  sy,             \* SpecSync: the synchronization state and the last call made on it
  ck,             \* SpecClock: the video clock, its packet queue's serial, the time
  pqs,            \* SpecPQ: one packet queue and the threads around it
  rd,             \* SpecRender: video frames from queue_picture to video_display
  au,             \* SpecAudio: the audio callback against audio_thread
  sk,             \* the reader's seek handling and the render state (SpecSeek)
  so,             \* SpecOpen: read_thread opening the stream components
  vf,             \* SpecRefresh: video_refresh's frame timing and late-frame drops
  xs,             \* SpecSpeed: the external clock's speed under check_external_clock_speed
  adf,            \* SpecFilter: the audio difference filter under synchronize_audio
  rl,             \* SpecLoop: read_thread's loop from seek to end of file, with the decoders
  ed,             \* SpecEarlyDrop: get_video_frame's early frame drop
  chp,            \* SpecChapter: seek_chapter and SeekChapter on one position
  prc,            \* SpecProtocol: a ProtocolClient's pending-request map
  tp              \* SpecPause: stream_toggle_pause run by the main thread and by read_thread

mainvars ==
  <<vq, vfq, seek_req, abort_request, paused, step, force_refresh, alloc_event,
    video_open, pc_main, pc_rd, pc_dec, pkt_serial, dec_exit, vr_took, shown>>

othervars == <<fqs, cl, sy, ck, pqs, rd, au, sk, so, vf, xs, adf, rl, ed, chp, prc, tp>>

vars == <<mainvars, othervars>>

NoShow == "none"

\* capacity and keep_last of each stream engine's frame queue (constructor)
FrameQueueSize(kind) ==
  CASE kind = "video" -> VIDEO_PICTURE_QUEUE_SIZE
    [] kind = "audio" -> SAMPLE_QUEUE_SIZE
    [] OTHER -> SUBPICTURE_QUEUE_SIZE

\* a constructor that creates every frame queue without keep_last
FrameQueueKeepLast_never(kind) == FALSE

FrameQueueKeepLast(kind) == kind # "subtitle"

\* one stream engine's frame queue with its producer (the stream's decoder
\* thread) and its consumer (video_refresh or the audio callback); ids gives
\* the identity of the frame each slot holds (0: none yet), next_id the
\* identity of the frame being decoded, last_taken that of the frame the
\* consumer's last next() was called on
FqsInit(kind) ==
  [kind |-> kind,
   fq |-> FQ_Init(FrameQueueSize(kind), FrameQueueKeepLast(kind)),
   ids |-> [i \in 0..(FrameQueueSize(kind) - 1) |-> 0],
   next_id |-> 1,
   last_taken |-> 0,
   pc_prod |-> "decode",
   pc_cons |-> "idle"]

\* A double that may be NaN is a record [nan, v], v in milliseconds.
NaN == [nan |-> TRUE, v |-> 0]

Dbl(x) == [nan |-> FALSE, v |-> x]

\* no call of a synchronization function is in progress
NoCall == [op |-> "none", arg |-> 0, ret |-> 0]

\* a clock after construction: no pts, the serial of no packet
ClockInit ==
  [pts |-> NaN, pts_drift |-> NaN, last_updated |-> 0, serial |-> -1,
   paused |-> FALSE]

\* the value of a variable whose component takes no step in the
\* specification at hand
NotRunning == "not running"

\* the video clock, its queue's serial and the time when a session opens
ClockAtOpen ==
  [clock |-> ClockInit, queue_serial |-> 0, now |-> 0, paused |-> FALSE,
   pos |-> NaN, pos_stale |-> TRUE]

\* the video frame queue and the two threads around it when the video stream
\* component has been opened (video_state.cpp)
CloseInit ==
  [pc_main |-> "loop", pc_dec |-> "decode",
   fq |-> FQ_Init(VIDEO_PICTURE_QUEUE_SIZE, TRUE),
   stoped |-> FALSE, pq_abort |-> FALSE, alloc_event |-> FALSE]

\* no call on the packet queue of SpecPQ has returned yet
NoQueueCall ==
  [op |-> "none", ret |-> 0, pkt |-> NoPacket, serial |-> -1, block |-> FALSE,
   n |-> 0]

\* a packet queue when its stream component has been opened, with the reader
\* thread, the stream's decoder thread and the main thread; pending is the
\* packets the reader was told were accepted and the decoder has not been
\* handed yet, each with the queue's serial at the time of its put
PqsInit ==
  [q |-> PacketQueue_Init, pc_rd |-> "loop", pc_dec |-> "idle",
   pc_main |-> "loop", call |-> NoQueueCall, pending |-> <<>>]

\* the video frame queue, the decoder thread and the render (main) thread of
\* SpecRender when the stream opens; ids gives the identity (the position in
\* decode-emission order) of the frame each slot holds, pushed the identities
\* pushed so far, presented the identities video_display() received as new
\* frames, last_displayed the one it received last
RenderInit ==
  [fq |-> FQ_Init(VIDEO_PICTURE_QUEUE_SIZE, TRUE),
   ids |-> [i \in 0..(VIDEO_PICTURE_QUEUE_SIZE - 1) |-> 0],
   queue_serial |-> 0, pkt_serial |-> 0, next_id |-> 1,
   pc_dec |-> "decode", pc_main |-> "loop",
   paused |-> FALSE, step |-> FALSE, force_refresh |-> FALSE, took |-> FALSE,
   pushed |-> {}, presented |-> <<>>, last_displayed |-> 0]

\* the audio frame queue, audio_thread and the audio device's callback when
\* the audio stream component has been opened.  build is "core" for
\* core/video_state.cpp, "core_WIN32" for it compiled with _WIN32 defined and
\* "video_state" for video_state.cpp; out is what the callback wrote last and
\* was_paused / underrun what audio_decode_frame found in that call
AudioInit(build) ==
  [build |-> build,
   fq |-> FQ_Init(SAMPLE_QUEUE_SIZE, TRUE),
   queue_serial |-> 0, pkt_serial |-> 0, abort_request |-> FALSE,
   paused |-> FALSE,
   pc_dec |-> "decode", pc_cb |-> "idle",
   out |-> "none", was_paused |-> FALSE, underrun |-> FALSE]

\* the stream kinds: each has a StreamEngine with a packet queue
StreamKinds == {"audio", "video", "subtitle"}

\* the session as read_thread and the main (render) thread see it once the
\* stream components are open: open tells which of audio_stream, video_stream
\* and subtitle_stream are >= 0 (video_state.cpp opens no subtitle stream), q
\* holds the three packet queues; before and seek_ok record the serials and
\* the result of avformat_seek_file of the seek the reader handles; the two
\* writer fields name the thread that wrote frame_timer / force_refresh last
SeekInit(build, open, attached_pic) ==
  [build |-> build, open |-> open, attached_pic |-> attached_pic,
   q |-> [k \in StreamKinds |-> PacketQueue_Init],
   seek_req |-> FALSE, queue_attachments_req |-> open["video"], eof |-> FALSE,
   paused |-> FALSE, step |-> FALSE,
   frame_timer |-> 0, force_refresh |-> FALSE,
   frame_timer_writer |-> "none", force_refresh_writer |-> "none",
   pc_rd |-> "loop", seek_ok |-> FALSE,
   before |-> [k \in StreamKinds |-> 0], seeks |-> 0]

\* read_thread before it opens the stream components: st_index tells for each
\* kind whether av_find_best_stream found no stream ("none", a negative
\* index), a stream of the file ("valid") or the stream specifier matched
\* nothing ("invalid", INT_MAX); stream tells whether audio_stream,
\* video_stream, subtitle_stream are >= 0, decoder whether the kind's decoder
\* thread runs, result what stream_component_open ended with
OpenInit(st_index) ==
  [st_index |-> st_index,
   stream |-> [k \in StreamKinds |-> FALSE],
   decoder |-> [k \in StreamKinds |-> FALSE],
   result |-> [k \in StreamKinds |-> "not called"],
   queue_attachments_req |-> FALSE,
   pc |-> "open_audio", ret |-> 0, quit_event |-> FALSE, other_failure |-> FALSE]

\* video_refresh's state when the video stream has been opened: the clock of
\* the video engine, the last time and delay video_refresh worked with, the
\* frames decoded so far
RefreshInit(av_sync_type, framedrop) ==
  [fq |-> FQ_Init(VIDEO_PICTURE_QUEUE_SIZE, TRUE),
   queue_serial |-> 0, next_pts |-> 0, nframes |-> 0,
   vidclk |-> ClockInit, now |-> 0,
   frame_timer |-> 0, time |-> 0, delay |-> 0, frame_drops_late |-> 0,
   paused |-> FALSE, step |-> FALSE, force_refresh |-> FALSE,
   av_sync_type |-> av_sync_type, framedrop |-> framedrop,
   max_frame_duration |-> 10000, pc |-> "loop"]

\* the external clock when the session opens: speed 1.0; which of the video
\* and audio streams are open
SpeedInit(video_stream, audio_stream) ==
  [video_stream |-> video_stream, audio_stream |-> audio_stream,
   speed |-> [k |-> 0, e |-> 0], prev |-> [k |-> 0, e |-> 0],
   fill |-> "none"]

\* no call of synchronize_audio made yet
NoFilterCall ==
  [op |-> "none", nb_samples |-> 0, ret |-> 0, master |-> "none",
   diff |-> [nan |-> TRUE, v |-> 0], count_before |-> 0, cum_before |-> 0]

\* the averaging filter when the audio stream component has been opened;
\* audio_diff_threshold is the duration of the hardware buffer
FilterInit(build, av_sync_type, video_st, audio_diff_threshold) ==
  [build |-> build, av_sync_type |-> av_sync_type, video_st |-> video_st,
   audio_diff_avg_count |-> 0, audio_diff_cum |-> 0,
   audio_diff_threshold |-> audio_diff_threshold, measured |-> 0,
   call |-> NoFilterCall]

MainVarsInit ==
  /\ vq = PQ_Init
  /\ vfq = FQ_Init(VIDEO_PICTURE_QUEUE_SIZE, TRUE)
  /\ seek_req = FALSE
  /\ abort_request = FALSE
  /\ paused = FALSE
  /\ step = FALSE
  /\ force_refresh = FALSE
  /\ alloc_event = FALSE
  /\ video_open = TRUE
  /\ pc_main = "loop"
  /\ pc_rd = "loop"
  /\ pc_dec = "get"
  /\ pkt_serial = -1
  /\ dec_exit = "running"
  /\ vr_took = FALSE
  /\ shown = NoShow

MainInit ==
  /\ MainVarsInit
  /\ fqs = NotRunning
  /\ cl = NotRunning
  /\ sy = NotRunning
  /\ ck = NotRunning
  /\ pqs = NotRunning
  /\ rd = NotRunning
  /\ au = NotRunning
  /\ sk = NotRunning
  /\ so = NotRunning
  /\ vf = NotRunning
  /\ xs = NotRunning
  /\ adf = NotRunning
  /\ rl = NotRunning
  /\ ed = NotRunning
  /\ chp = NotRunning
  /\ prc = NotRunning
  /\ tp = NotRunning

\* SDL_CondSignal on the frame queue's condition variable: a thread waiting on
\* it goes back to re-check its wait predicate
FQ_signalled(pc) ==
  CASE pc = "pw_wait" -> "qp_woken"
    [] pc = "alloc_wait" -> "alloc_check"
    [] pc = "alloc_wait2" -> "alloc_check2"
    [] OTHER -> pc

(***************************************************************************)
(* read_thread (core/video_state.cpp): the loop of lines 1948-2089.        *)
(***************************************************************************)
\* one pass of the loop head: abort check, seek request (avformat_seek_file
\* may fail), else av_read_frame and put() unless the queue has enough packets
R_Loop ==
  /\ pc_rd = "loop"
  /\ IF abort_request
     THEN /\ pc_rd' = "done"
          /\ UNCHANGED vq
     ELSE IF seek_req
     THEN /\ \E seek_ok \in BOOLEAN :
               pc_rd' = IF seek_ok THEN "seek_flush" ELSE "seek_end"
          /\ UNCHANGED vq
     ELSE /\ Len(vq.list) < MaxPackets
          /\ vq' = PQ_put(vq, "data")
          /\ UNCHANGED pc_rd
  /\ UNCHANGED <<vfq, seek_req, abort_request, paused, step, force_refresh,
                 alloc_event, video_open, pc_main, pc_dec,
                 pkt_serial, dec_exit, vr_took, shown, othervars>>

R_SeekFlush_skipped ==
  /\ pc_rd = "seek_flush"
  /\ pc_rd' = "seek_put"
  /\ UNCHANGED <<vq, vfq, seek_req, abort_request, paused, step, force_refresh,
                 alloc_event, video_open, pc_main, pc_dec,
                 pkt_serial, dec_exit, vr_took, shown, othervars>>

\* seek succeeded: packet_queue_->flush()
R_SeekFlush ==
  /\ pc_rd = "seek_flush"
  /\ vq' = (IF video_open THEN PQ_flush(vq) ELSE vq)
  /\ pc_rd' = "seek_put"
  /\ UNCHANGED <<vfq, seek_req, abort_request, paused, step, force_refresh,
                 alloc_event, video_open, pc_main, pc_dec,
                 pkt_serial, dec_exit, vr_took, shown, othervars>>

\* packet_queue_->put(PacketQueue::flush_pkt())
R_SeekPut ==
  /\ pc_rd = "seek_put"
  /\ vq' = (IF video_open THEN PQ_put(vq, "flush") ELSE vq)
  /\ pc_rd' = "seek_end"
  /\ UNCHANGED <<vfq, seek_req, abort_request, paused, step, force_refresh,
                 alloc_event, video_open, pc_main, pc_dec,
                 pkt_serial, dec_exit, vr_took, shown, othervars>>

\* seek_req = 0 ... if (paused_) step_to_next_frame()
R_SeekEnd ==
  /\ pc_rd = "seek_end"
  /\ seek_req' = FALSE
  /\ paused' = FALSE
  /\ step' = (IF paused THEN TRUE ELSE step)
  /\ pc_rd' = "loop"
  /\ UNCHANGED <<vq, vfq, abort_request, force_refresh, alloc_event,
                 video_open, pc_main, pc_dec, pkt_serial,
                 dec_exit, vr_took, shown, othervars>>

(***************************************************************************)
(* video_thread (core/video_state.cpp): get_video_frame, then              *)
(* queue_picture.                                                          *)
(***************************************************************************)
\* get_video_frame: the decoder takes the next packet (blocking get), drops
\* flush markers and packets of a stale serial, and may drop a late frame early
\* (early_drop: the comparison with the master clock is an input)
D_Get ==
  /\ pc_dec = "get"
  /\ vq.abort_request \/ Len(vq.list) > 0
  /\ IF vq.abort_request
     THEN /\ pc_dec' = "done"
          /\ dec_exit' = "decode_aborted"
          /\ UNCHANGED <<vq, pkt_serial>>
     ELSE /\ vq' = PQ_pop(vq)
          /\ pkt_serial' = PQ_head(vq).serial
          /\ UNCHANGED dec_exit
          /\ IF PQ_head(vq).kind = "flush" \/ PQ_head(vq).serial # vq.serial
             THEN UNCHANGED pc_dec
             ELSE \E early_drop \in BOOLEAN :
                    pc_dec' = IF early_drop /\ Len(vq.list) > 1
                              THEN "get" ELSE "qp"
  /\ UNCHANGED <<vfq, seek_req, abort_request, paused, step, force_refresh,
                 alloc_event, video_open, pc_main, pc_rd,
                 vr_took, shown, othervars>>

\* queue_picture, lines 1669-1691: peek_writable() (waits while the queue is
\* full and not aborted, NULL when aborted), then the allocation request
D_PeekWritable ==
  /\ pc_dec \in {"qp", "qp_woken"}
  /\ IF FQ_full(vfq) /\ ~vq.abort_request
     THEN /\ pc_dec' = "pw_wait"
          /\ UNCHANGED <<vfq, alloc_event, dec_exit>>
     ELSE IF vq.abort_request
     THEN /\ pc_dec' = "done"
          /\ dec_exit' = (IF pc_dec = "qp_woken" THEN "peek_writable_woken_null"
                          ELSE "peek_writable_null")
          /\ UNCHANGED <<vfq, alloc_event>>
     ELSE IF ~vfq.queue[vfq.windex].allocated
     THEN /\ alloc_event' = TRUE
          /\ pc_dec' = "alloc_check"
          /\ UNCHANGED <<vfq, dec_exit>>
     ELSE /\ pc_dec' = "fill"
          /\ UNCHANGED <<vfq, alloc_event, dec_exit>>
  /\ UNCHANGED <<vq, seek_req, abort_request, paused, step, force_refresh,
                 video_open, pc_main, pc_rd, pkt_serial,
                 vr_took, shown, othervars>>

\* lines 1694-1697: while (!vp->allocated && !abort_request()) SDL_CondWait
D_AllocCheck ==
  /\ pc_dec = "alloc_check"
  /\ pc_dec' = IF ~vfq.queue[vfq.windex].allocated /\ ~vq.abort_request
               THEN "alloc_wait" ELSE "alloc_after"
  /\ UNCHANGED <<vq, vfq, seek_req, abort_request, paused, step, force_refresh,
                 alloc_event, video_open, pc_main, pc_rd,
                 pkt_serial, dec_exit, vr_took, shown, othervars>>

\* lines 1700-1701: on abort, pop the pending ALLOC event, or else wait for the
\* allocation to complete
D_AllocAfter ==
  /\ pc_dec = "alloc_after"
  /\ IF vq.abort_request /\ ~alloc_event
     THEN /\ pc_dec' = "alloc_check2"
          /\ UNCHANGED alloc_event
     ELSE /\ pc_dec' = "alloc_ret"
          /\ alloc_event' = (IF vq.abort_request THEN FALSE ELSE alloc_event)
  /\ UNCHANGED <<vq, vfq, seek_req, abort_request, paused, step, force_refresh,
                 video_open, pc_main, pc_rd, pkt_serial,
                 dec_exit, vr_took, shown, othervars>>

\* lines 1702-1704: while (!vp->allocated && !abort_request) SDL_CondWait
D_AllocCheck2 ==
  /\ pc_dec = "alloc_check2"
  /\ pc_dec' = IF ~vfq.queue[vfq.windex].allocated /\ ~abort_request
               THEN "alloc_wait2" ELSE "alloc_ret"
  /\ UNCHANGED <<vq, vfq, seek_req, abort_request, paused, step, force_refresh,
                 alloc_event, video_open, pc_main, pc_rd,
                 pkt_serial, dec_exit, vr_took, shown, othervars>>

\* lines 1708-1710: if (abort_request()) return -1
D_AllocRet ==
  /\ pc_dec = "alloc_ret"
  /\ IF vq.abort_request
     THEN /\ pc_dec' = "done"
          /\ dec_exit' = "alloc_aborted"
     ELSE /\ pc_dec' = "fill"
          /\ UNCHANGED dec_exit
  /\ UNCHANGED <<vq, vfq, seek_req, abort_request, paused, step, force_refresh,
                 alloc_event, video_open, pc_main, pc_rd,
                 pkt_serial, vr_took, shown, othervars>>

\* lines 1714-1722: fill the slot (serial of the packet it came from), push()
D_Fill ==
  /\ pc_dec = "fill"
  /\ vfq' = FQ_push([vfq EXCEPT !.queue[vfq.windex].serial = pkt_serial])
  /\ pc_dec' = "get"
  /\ UNCHANGED <<vq, seek_req, abort_request, paused, step, force_refresh,
                 alloc_event, video_open, pc_main, pc_rd,
                 pkt_serial, dec_exit, vr_took, shown, othervars>>

(***************************************************************************)
(* Main thread (core/video_state.cpp): the event loop of exec() with       *)
(* refresh_loop_wait_event / video_refresh, and the teardown.              *)
(***************************************************************************)
\* stream_seek(): records the request unless one is already pending
stream_seek ==
  /\ pc_main = "loop"
  /\ vq.serial < MaxSeeks
  /\ seek_req' = TRUE
  /\ UNCHANGED <<vq, vfq, abort_request, paused, step, force_refresh,
                 alloc_event, video_open, pc_main, pc_rd, pc_dec,
                 pkt_serial, dec_exit, vr_took, shown, othervars>>

\* toggle_pause(): stream_toggle_pause(), step = 0
toggle_pause ==
  /\ pc_main = "loop"
  /\ paused' = ~paused
  /\ step' = FALSE
  /\ UNCHANGED <<vq, vfq, seek_req, abort_request, force_refresh, alloc_event,
                 video_open, pc_main, pc_rd, pc_dec, pkt_serial,
                 dec_exit, vr_took, shown, othervars>>

\* step_to_next_frame(): unpause if paused, step = 1
step_to_next_frame ==
  /\ pc_main = "loop"
  /\ paused' = FALSE
  /\ step' = TRUE
  /\ UNCHANGED <<vq, vfq, seek_req, abort_request, force_refresh, alloc_event,
                 video_open, pc_main, pc_rd, pc_dec, pkt_serial,
                 dec_exit, vr_took, shown, othervars>>

\* SDL_WINDOWEVENT_EXPOSED and the like: force_refresh = 1
WindowExposed ==
  /\ pc_main = "loop"
  /\ ~force_refresh
  /\ force_refresh' = TRUE
  /\ UNCHANGED <<vq, vfq, seek_req, abort_request, paused, step, alloc_event,
                 video_open, pc_main, pc_rd, pc_dec, pkt_serial,
                 dec_exit, vr_took, shown, othervars>>

\* FF_ALLOC_EVENT: alloc_picture() allocates the slot at windex and signals
alloc_picture ==
  /\ pc_main = "loop"
  /\ alloc_event
  /\ alloc_event' = FALSE
  /\ vfq' = [vfq EXCEPT !.queue[vfq.windex].allocated = TRUE]
  /\ pc_dec' = FQ_signalled(pc_dec)
  /\ UNCHANGED <<vq, seek_req, abort_request, paused, step, force_refresh,
                 video_open, pc_main, pc_rd, pkt_serial,
                 dec_exit, vr_took, shown, othervars>>

\* refresh_loop_wait_event: no event pending, video_refresh is due
RefreshStart ==
  /\ pc_main = "loop"
  /\ ~paused \/ force_refresh
  /\ pc_main' = "vr_retry"
  /\ vr_took' = FALSE
  /\ UNCHANGED <<vq, vfq, seek_req, abort_request, paused, step, force_refresh,
                 alloc_event, video_open, pc_rd, pc_dec,
                 pkt_serial, dec_exit, shown, othervars>>

\* video_refresh, lines 508-522: nothing queued -> display; head frame of a
\* stale serial -> next() and retry
VR_Retry ==
  /\ pc_main = "vr_retry"
  /\ IF FQ_nb_remaining(vfq) = 0
     THEN /\ pc_main' = "vr_display"
          /\ UNCHANGED <<vfq, pc_dec>>
     ELSE IF FQ_peek(vfq).serial # vq.serial
     THEN /\ vfq' = FQ_next(vfq)
          /\ pc_dec' = FQ_signalled(pc_dec)
          /\ UNCHANGED pc_main
     ELSE /\ pc_main' = "vr_sched"
          /\ UNCHANGED <<vfq, pc_dec>>
  /\ UNCHANGED <<vq, seek_req, abort_request, paused, step, force_refresh,
                 alloc_event, video_open, pc_rd, pkt_serial,
                 dec_exit, vr_took, shown, othervars>>

\* video_refresh, lines 524-603: paused or not yet due -> display; else the
\* late-drop decision, next(), force_refresh and the step pause.  The system
\* time and the clocks are inputs here (due, drop_late); the clocks themselves
\* are the subject of SpecSync.
VR_Sched ==
  /\ pc_main = "vr_sched"
  /\ IF paused
     THEN /\ pc_main' = "vr_display"
          /\ UNCHANGED <<vfq, pc_dec, force_refresh, paused, vr_took>>
     ELSE \E due \in BOOLEAN, drop_late \in BOOLEAN :
            IF ~due
            THEN /\ pc_main' = "vr_display"
                 /\ UNCHANGED <<vfq, pc_dec, force_refresh, paused,
                                vr_took>>
            ELSE /\ vfq' = FQ_next(vfq)
                 /\ pc_dec' = FQ_signalled(pc_dec)
                 /\ IF FQ_nb_remaining(vfq) > 1 /\ ~step /\ drop_late
                    THEN /\ pc_main' = "vr_retry"
                         /\ UNCHANGED <<force_refresh, paused, vr_took>>
                    ELSE /\ pc_main' = "vr_display"
                         /\ force_refresh' = TRUE
                         /\ vr_took' = TRUE
                         /\ paused' = (IF step THEN TRUE ELSE paused)
  /\ UNCHANGED <<vq, seek_req, abort_request, step, alloc_event, video_open,
                 pc_rd, pkt_serial, dec_exit, shown, othervars>>

\* what the display sink receives: a frame newly taken from the queue or the
\* last one again, of the packet queue's current serial or of a stale one
video_display(vp, serial, took) ==
  IF ~took THEN "again"
  ELSE IF vp.serial = serial THEN "new_current" ELSE "new_stale"

\* video_refresh, lines 605-612: video_display() of peek_last() when a refresh
\* is forced and a frame has been shown; force_refresh = 0
VR_Display ==
  /\ pc_main = "vr_display"
  /\ shown' = IF force_refresh /\ FQ_rindexShown(vfq)
              THEN video_display(FQ_peek_last(vfq), vq.serial, vr_took)
              ELSE shown
  /\ force_refresh' = FALSE
  /\ pc_main' = "loop"
  /\ UNCHANGED <<vq, vfq, seek_req, abort_request, paused, step, alloc_event,
                 video_open, pc_rd, pc_dec, pkt_serial,
                 dec_exit, vr_took, othervars>>

\* ~VideoState, lines 98-101: abort_request = 1; SDL_WaitThread(read_tid)
Quit ==
  /\ pc_main = "loop"
  /\ abort_request' = TRUE
  /\ pc_main' = "join_reader"
  /\ UNCHANGED <<vq, vfq, seek_req, paused, step, force_refresh, alloc_event,
                 video_open, pc_rd, pc_dec, pkt_serial,
                 dec_exit, vr_took, shown, othervars>>

JoinReader ==
  /\ pc_main = "join_reader"
  /\ pc_rd = "done"
  /\ pc_main' = "close_abort"
  /\ UNCHANGED <<vq, vfq, seek_req, abort_request, paused, step, force_refresh,
                 alloc_event, video_open, pc_rd, pc_dec,
                 pkt_serial, dec_exit, vr_took, shown, othervars>>

\* stream_component_close -> viddec->abort(frame_queue): packet queue abort()
CloseAbort ==
  /\ pc_main = "close_abort"
  /\ vq' = PQ_abort(vq)
  /\ pc_main' = "close_signal"
  /\ UNCHANGED <<vfq, seek_req, abort_request, paused, step, force_refresh,
                 alloc_event, video_open, pc_rd, pc_dec,
                 pkt_serial, dec_exit, vr_took, shown, othervars>>

CloseSignal_none ==
  /\ pc_main = "close_signal"
  /\ pc_main' = "close_join"
  /\ UNCHANGED <<vq, vfq, seek_req, abort_request, paused, step, force_refresh,
                 alloc_event, video_open, pc_rd, pc_dec,
                 pkt_serial, dec_exit, vr_took, shown, othervars>>

\* ... then the frame queue's signal(), which wakes a blocked producer
CloseSignal ==
  /\ pc_main = "close_signal"
  /\ pc_dec' = FQ_signalled(pc_dec)
  /\ pc_main' = "close_join"
  /\ UNCHANGED <<vq, vfq, seek_req, abort_request, paused, step, force_refresh,
                 alloc_event, video_open, pc_rd, pkt_serial,
                 dec_exit, vr_took, shown, othervars>>

\* ... then the wait for the decoder thread; video_st = NULL
CloseJoin ==
  /\ pc_main = "close_join"
  /\ pc_dec = "done"
  /\ pc_main' = "closed"
  /\ video_open' = FALSE
  /\ UNCHANGED <<vq, vfq, seek_req, abort_request, paused, step, force_refresh,
                 alloc_event, pc_rd, pc_dec, pkt_serial,
                 dec_exit, vr_took, shown, othervars>>

Init == MainInit

Next ==
  \/ R_Loop \/ R_SeekFlush \/ R_SeekPut \/ R_SeekEnd
  \/ D_Get \/ D_PeekWritable \/ D_AllocCheck \/ D_AllocAfter \/ D_AllocCheck2
  \/ D_AllocRet \/ D_Fill
  \/ stream_seek \/ toggle_pause \/ step_to_next_frame \/ WindowExposed
  \/ alloc_picture \/ RefreshStart \/ VR_Retry \/ VR_Sched \/ VR_Display
  \/ Quit \/ JoinReader \/ CloseAbort \/ CloseSignal \/ CloseJoin

Spec == Init /\ [][Next]_vars

\* the teardown on the main thread and the decoder thread keep being scheduled
SpecFair ==
  /\ Spec
  /\ WF_vars(CloseAbort)
  /\ WF_vars(CloseSignal)
  /\ WF_vars(D_PeekWritable)

(***************************************************************************)
(* Claims checked under Spec.                                              *)
(***************************************************************************)
\* C1: for every interleaving of the reader's seek flush with video_refresh, a
\* frame newly handed to the display never carries a serial different from
\* the video packet queue's serial at that moment.
C1_StaleFrameNeverDisplayed == shown # "new_stale"

C2_QueuedPacketsAreCurrent ==
  \A i \in 1..Len(vq.list) : vq.list[i].serial = vq.serial

C2_SerialStep ==
  /\ vq'.serial >= vq.serial
  /\ (pc_rd = "seek_flush" /\ pc_rd' = "seek_put") => vq'.serial > vq.serial
  /\ pkt_serial' >= pkt_serial
  /\ pkt_serial' <= vq.serial

\* C2: every flush the reader performs for a seek strictly increases the
\* queue's serial, the serial never decreases, every packet still queued was
\* inserted under the current serial, and the serials the consumer observes
\* through get() never step back to a packet inserted before a flush it has
\* already seen.
C2_FlushSerialMonotone ==
  [](C2_QueuedPacketsAreCurrent) /\ [][C2_SerialStep]_vars

\* C2 witness: the consumer has taken a packet of the serial set by a flush
C2_Witness == pkt_serial >= 1 /\ vq.serial = MaxSeeks /\ pc_dec = "qp"

C4_NotBlockedAfterClose ==
  (pc_main \in {"close_join", "closed"}) => pc_dec # "pw_wait"

C4_WakeStep ==
  /\ (pc_main = "close_signal" /\ pc_main' = "close_join" /\ pc_dec = "pw_wait")
       => pc_dec' = "qp_woken"
  /\ (pc_dec = "qp_woken" /\ vq.abort_request /\ pc_dec' # pc_dec)
       => (pc_dec' = "done" /\ dec_exit' = "peek_writable_woken_null")

C4_BlockedProducerLeaves ==
  (pc_dec = "pw_wait" /\ pc_main = "close_abort")
    ~> (pc_dec = "done" /\ dec_exit = "peek_writable_woken_null")

\* C4: a producer blocked in peek_writable() on a full frame queue is woken by
\* the close of its stream (packet queue abort, then frame queue signal), its
\* re-check returns NULL and video_thread leaves its loop; once the close has
\* signalled, the producer is never still blocked in peek_writable().
C4_AbortReleasesPeekWritable ==
  /\ [](C4_NotBlockedAfterClose)
  /\ [][C4_WakeStep]_vars
  /\ C4_BlockedProducerLeaves

\* C4 witness: the queue is full, the producer is blocked in peek_writable()
\* and the stream's packet queue has just been aborted
C4_Witness ==
  /\ pc_dec = "pw_wait"
  /\ FQ_full(vfq)
  /\ vq.abort_request
  /\ pc_main = "close_signal"

(***************************************************************************)
(* Specification SpecFQ: one frame queue of core/video_state.cpp between   *)
(* its producer and its consumer: video_thread/queue_picture against       *)
(* video_refresh, audio_thread against audio_decode_frame, subtitle_thread *)
(* against the subtitle loop of video_refresh.                             *)
(***************************************************************************)
\* the identity after id: identities are reused once no slot can still hold
\* them
FQ_next_id(f, id) == (id % (f.max_size + 1)) + 1

\* the producer's peek_writable(): returns the slot at windex once the queue
\* is not full
P_peek_writable ==
  /\ fqs.pc_prod = "decode"
  /\ ~FQ_full(fqs.fq)
  /\ fqs' = [fqs EXCEPT !.pc_prod = "fill"]
  /\ UNCHANGED <<mainvars, cl, sy, ck, pqs, rd, au, sk, so, vf, xs, adf, rl, ed, chp, prc, tp>>

\* the producer fills the slot and calls push(); subtitle_thread pushes only
\* when the decoder produced a subtitle (got_subtitle)
P_push ==
  /\ fqs.pc_prod = "fill"
  /\ \E got \in BOOLEAN :
       fqs' = IF got \/ fqs.kind # "subtitle"
              THEN [fqs EXCEPT !.pc_prod = "decode",
                               !.fq = FQ_push(@),
                               !.ids[fqs.fq.windex] = fqs.next_id,
                               !.next_id = FQ_next_id(fqs.fq, @)]
              ELSE [fqs EXCEPT !.pc_prod = "decode"]
  /\ UNCHANGED <<mainvars, cl, sy, ck, pqs, rd, au, sk, so, vf, xs, adf, rl, ed, chp, prc, tp>>

C_peek_readable_unguarded ==
  /\ fqs.pc_cons = "idle"
  /\ fqs' = [fqs EXCEPT !.pc_cons = "next"]
  /\ UNCHANGED <<mainvars, cl, sy, ck, pqs, rd, au, sk, so, vf, xs, adf, rl, ed, chp, prc, tp>>

\* the consumer looks at the queue: video_refresh and its subtitle loop go on
\* only when nb_remaining() > 0, audio_decode_frame waits in peek_readable()
C_peek_readable ==
  /\ fqs.pc_cons = "idle"
  /\ FQ_nb_remaining(fqs.fq) > 0
  /\ fqs' = [fqs EXCEPT !.pc_cons = "next"]
  /\ UNCHANGED <<mainvars, cl, sy, ck, pqs, rd, au, sk, so, vf, xs, adf, rl, ed, chp, prc, tp>>

\* the consumer either leaves the frame where it is (not yet due) or calls
\* next()
C_next ==
  /\ fqs.pc_cons = "next"
  /\ \E due \in BOOLEAN :
       fqs' = IF due \/ fqs.kind = "audio"
              THEN [fqs EXCEPT
                      !.pc_cons = "idle",
                      !.fq = FQ_next(@),
                      !.last_taken =
                         fqs.ids[(fqs.fq.rindex + fqs.fq.rindex_shown)
                                   % fqs.fq.max_size]]
              ELSE [fqs EXCEPT !.pc_cons = "idle"]
  /\ UNCHANGED <<mainvars, cl, sy, ck, pqs, rd, au, sk, so, vf, xs, adf, rl, ed, chp, prc, tp>>

InitFQ ==
  /\ MainVarsInit
  /\ \E kind \in {"video", "audio", "subtitle"} : fqs = FqsInit(kind)
  /\ cl = NotRunning
  /\ sy = NotRunning
  /\ ck = NotRunning
  /\ pqs = NotRunning
  /\ rd = NotRunning
  /\ au = NotRunning
  /\ sk = NotRunning
  /\ so = NotRunning
  /\ vf = NotRunning
  /\ xs = NotRunning
  /\ adf = NotRunning
  /\ rl = NotRunning
  /\ ed = NotRunning
  /\ chp = NotRunning
  /\ prc = NotRunning
  /\ tp = NotRunning

NextFQ == P_peek_writable \/ P_push \/ C_peek_readable \/ C_next

SpecFQ == InitFQ /\ [][NextFQ]_vars

\* C3: for all interleavings of the producing decoder thread (peek_writable,
\* push) and the consuming thread (next), the size of each frame queue stays
\* within 0..capacity, the capacity being 3 for video, 9 for audio and 16 for
\* subtitles.
C3_FrameQueueSizeInRange ==
  /\ fqs.fq.max_size = (CASE fqs.kind = "video" -> 3
                          [] fqs.kind = "audio" -> 9
                          [] OTHER -> 16)
  /\ fqs.fq.size >= 0
  /\ fqs.fq.size <= fqs.fq.max_size
  /\ FQ_nb_remaining(fqs.fq) >= 0

\* C3 witness: a subtitle queue filled to its capacity of 16 while the
\* consumer is about to call next()
C3_Witness ==
  /\ fqs.kind = "subtitle"
  /\ fqs.fq.size = SUBPICTURE_QUEUE_SIZE
  /\ fqs.pc_cons = "next"
  /\ fqs.pc_prod = "decode"

\* the identity of the frame peek_last() returns
FQS_peek_last_id == fqs.ids[fqs.fq.rindex]

\* C16: in a frame queue created with keep_last set (video, audio), after the
\* consumer advances with next() the consumed frame stays readable through
\* peek_last(), and the producer's peek_writable() never hands out that
\* last-shown slot for overwriting while it is still the frame peek_last()
\* returns.
C16_LastShownStaysReadable ==
  (fqs.kind \in {"video", "audio"} /\ fqs.last_taken # 0) =>
    /\ fqs.fq.keep_last
    /\ FQ_rindexShown(fqs.fq)
    /\ FQS_peek_last_id = fqs.last_taken
    /\ (fqs.pc_prod = "fill") => fqs.fq.windex # fqs.fq.rindex

\* C16 witness: the video queue is full with the last-shown frame in the very
\* slot the producer would write next, and the producer is held back
C16_Witness ==
  /\ fqs.kind = "video"
  /\ fqs.last_taken # 0
  /\ FQS_peek_last_id = fqs.last_taken
  /\ fqs.fq.size = VIDEO_PICTURE_QUEUE_SIZE
  /\ fqs.fq.windex = fqs.fq.rindex
  /\ fqs.pc_prod = "decode"
  /\ fqs.next_id = 1

(***************************************************************************)
(* Specification SpecSync: the synchronization functions of VideoState, in *)
(* both implementations (core/video_state.cpp and video_state.cpp),        *)
(* applied to a synchronization state drawn by InitSync.                   *)
(***************************************************************************)
\* a - b on doubles
dsub(a, b) == IF a.nan \/ b.nan THEN NaN ELSE Dbl(a.v - b.v)

fabs(x) == IF x < 0 THEN -x ELSE x

FFMAX(a, b) == IF a > b THEN a ELSE b

FFMIN(a, b) == IF a > b THEN b ELSE a

av_clip(a, amin, amax) ==
  IF a < amin THEN amin ELSE IF a > amax THEN amax ELSE a

\* C integer division and the cast of a double to int: truncation toward zero
CDiv(a, b) == IF a >= 0 THEN a \div b ELSE -((-a) \div b)

\* get_master_sync_type() of core/video_state.cpp
get_master_sync_type(e) ==
  IF e.av_sync_type = "VIDEO"
  THEN (IF e.video_st THEN "VIDEO" ELSE "AUDIO")
  ELSE IF e.av_sync_type = "AUDIO"
  THEN (IF e.audio_st THEN "AUDIO" ELSE "EXTERNAL")
  ELSE "EXTERNAL"

\* GetMasterSyncType() of video_state.cpp
GetMasterSyncType(e) == e.av_sync_type

\* get_master_clock() of core/video_state.cpp
get_master_clock(e) ==
  CASE get_master_sync_type(e) = "VIDEO" -> e.vclock
    [] get_master_sync_type(e) = "AUDIO" -> e.aclock
    [] OTHER -> e.sclock

\* GetMasterClock() of video_state.cpp
GetMasterClock(e) ==
  IF GetMasterSyncType(e) = "VIDEO" THEN e.vclock ELSE e.aclock

\* compute_target_delay() without the FFMAX(0, ...) of the shrunk delay
compute_target_delay_unclamped(e, delay) ==
  IF get_master_sync_type(e) # "VIDEO"
  THEN LET diff == dsub(e.vclock, get_master_clock(e))
           sync_threshold ==
             FFMAX(AV_SYNC_THRESHOLD_MIN, FFMIN(AV_SYNC_THRESHOLD_MAX, delay))
       IN  IF ~diff.nan /\ fabs(diff.v) < e.max_frame_duration
           THEN IF diff.v <= -sync_threshold
                THEN delay + diff.v
                ELSE IF diff.v >= sync_threshold
                        /\ delay > AV_SYNC_FRAMEDUP_THRESHOLD
                THEN delay + diff.v
                ELSE IF diff.v >= sync_threshold
                THEN 2 * delay
                ELSE delay
           ELSE delay
  ELSE delay

\* compute_target_delay() without the test against max_frame_duration
compute_target_delay_any_diff(e, delay) ==
  IF get_master_sync_type(e) # "VIDEO"
  THEN LET diff == dsub(e.vclock, get_master_clock(e))
           sync_threshold ==
             FFMAX(AV_SYNC_THRESHOLD_MIN, FFMIN(AV_SYNC_THRESHOLD_MAX, delay))
       IN  IF ~diff.nan
           THEN IF diff.v <= -sync_threshold
                THEN FFMAX(0, delay + diff.v)
                ELSE IF diff.v >= sync_threshold
                        /\ delay > AV_SYNC_FRAMEDUP_THRESHOLD
                THEN delay + diff.v
                ELSE IF diff.v >= sync_threshold
                THEN 2 * delay
                ELSE delay
           ELSE delay
  ELSE delay

compute_target_delay_audio_clock(e, delay) ==
  IF get_master_sync_type(e) # "VIDEO"
  THEN LET diff == dsub(e.vclock, e.aclock)
           sync_threshold ==
             FFMAX(AV_SYNC_THRESHOLD_MIN, FFMIN(AV_SYNC_THRESHOLD_MAX, delay))
       IN  IF ~diff.nan /\ fabs(diff.v) < e.max_frame_duration
           THEN IF diff.v <= -sync_threshold
                THEN FFMAX(0, delay + diff.v)
                ELSE IF diff.v >= sync_threshold
                        /\ delay > AV_SYNC_FRAMEDUP_THRESHOLD
                THEN delay + diff.v
                ELSE IF diff.v >= sync_threshold
                THEN 2 * delay
                ELSE delay
           ELSE delay
  ELSE delay

\* compute_target_delay() of core/video_state.cpp
compute_target_delay(e, delay) ==
  IF get_master_sync_type(e) # "VIDEO"
  THEN LET diff == dsub(e.vclock, get_master_clock(e))
           sync_threshold ==
             FFMAX(AV_SYNC_THRESHOLD_MIN, FFMIN(AV_SYNC_THRESHOLD_MAX, delay))
       IN  IF ~diff.nan /\ fabs(diff.v) < e.max_frame_duration
           THEN IF diff.v <= -sync_threshold
                THEN FFMAX(0, delay + diff.v)
                ELSE IF diff.v >= sync_threshold
                        /\ delay > AV_SYNC_FRAMEDUP_THRESHOLD
                THEN delay + diff.v
                ELSE IF diff.v >= sync_threshold
                THEN 2 * delay
                ELSE delay
           ELSE delay
  ELSE delay

\* ComputeTargetDelay() that stretches a frame of exactly the duplicate
\* threshold
ComputeTargetDelay_dup_inclusive(e, delay) ==
  IF GetMasterSyncType(e) # "VIDEO"
  THEN LET diff == dsub(e.vclock, GetMasterClock(e))
           sync_threshold ==
             FFMAX(AV_SYNC_THRESHOLD_MIN, FFMIN(AV_SYNC_THRESHOLD_MAX, delay))
       IN  IF ~diff.nan /\ fabs(diff.v) < e.max_frame_duration
           THEN IF diff.v <= -sync_threshold
                THEN FFMAX(0, delay + diff.v)
                ELSE IF diff.v >= sync_threshold
                        /\ delay >= AV_SYNC_FRAMEDUP_THRESHOLD
                THEN delay + diff.v
                ELSE IF diff.v >= sync_threshold
                THEN 2 * delay
                ELSE delay
           ELSE delay
  ELSE delay

ComputeTargetDelay_repeat_on_lag(e, delay) ==
  IF GetMasterSyncType(e) # "VIDEO"
  THEN LET diff == dsub(e.vclock, GetMasterClock(e))
           sync_threshold ==
             FFMAX(AV_SYNC_THRESHOLD_MIN, FFMIN(AV_SYNC_THRESHOLD_MAX, delay))
       IN  IF ~diff.nan /\ fabs(diff.v) < e.max_frame_duration
           THEN IF diff.v >= sync_threshold
                THEN FFMAX(0, delay - diff.v)
                ELSE IF diff.v <= -sync_threshold
                        /\ delay > AV_SYNC_FRAMEDUP_THRESHOLD
                THEN delay - diff.v
                ELSE IF diff.v <= -sync_threshold
                THEN 2 * delay
                ELSE delay
           ELSE delay
  ELSE delay

\* ComputeTargetDelay() of video_state.cpp
ComputeTargetDelay(e, delay) ==
  IF GetMasterSyncType(e) # "VIDEO"
  THEN LET diff == dsub(e.vclock, GetMasterClock(e))
           sync_threshold ==
             FFMAX(AV_SYNC_THRESHOLD_MIN, FFMIN(AV_SYNC_THRESHOLD_MAX, delay))
       IN  IF ~diff.nan /\ fabs(diff.v) < e.max_frame_duration
           THEN IF diff.v <= -sync_threshold
                THEN FFMAX(0, delay + diff.v)
                ELSE IF diff.v >= sync_threshold
                        /\ delay > AV_SYNC_FRAMEDUP_THRESHOLD
                THEN delay + diff.v
                ELSE IF diff.v >= sync_threshold
                THEN 2 * delay
                ELSE delay
           ELSE delay
  ELSE delay

\* synchronize_audio() of core/video_state.cpp: the value returned and the
\* counter of the averaging filter after the call.  avg_over is the outcome of
\* fabs(avg_diff) >= audio_diff_threshold, the comparison of the exponential
\* average audio_diff_cum * (1 - audio_diff_avg_coef) with the threshold.
synchronize_audio_unclipped(e, nb_samples, avg_over) ==
  IF get_master_sync_type(e) # "AUDIO"
  THEN LET diff == dsub(e.aclock, get_master_clock(e))
       IN  IF ~diff.nan /\ fabs(diff.v) < AV_NOSYNC_THRESHOLD
           THEN IF e.audio_diff_avg_count < AUDIO_DIFF_AVG_NB
                THEN [ret |-> nb_samples,
                      audio_diff_avg_count |-> e.audio_diff_avg_count + 1]
                ELSE IF avg_over
                THEN LET wanted_nb_samples ==
                           nb_samples + CDiv(diff.v * e.freq, 1000)
                         min_nb_samples ==
                           CDiv(nb_samples * (100 - SAMPLE_CORRECTION_PERCENT_MAX), 100)
                         max_nb_samples ==
                           CDiv(nb_samples * (100 + SAMPLE_CORRECTION_PERCENT_MAX), 100)
                     IN  [ret |-> wanted_nb_samples,
                          audio_diff_avg_count |-> e.audio_diff_avg_count]
                ELSE [ret |-> nb_samples,
                      audio_diff_avg_count |-> e.audio_diff_avg_count]
           ELSE [ret |-> nb_samples, audio_diff_avg_count |-> 0]
  ELSE [ret |-> nb_samples, audio_diff_avg_count |-> e.audio_diff_avg_count]

\* synchronize_audio() that corrects one measurement early
synchronize_audio_early(e, nb_samples, avg_over) ==
  IF get_master_sync_type(e) # "AUDIO"
  THEN LET diff == dsub(e.aclock, get_master_clock(e))
       IN  IF ~diff.nan /\ fabs(diff.v) < AV_NOSYNC_THRESHOLD
           THEN IF e.audio_diff_avg_count < AUDIO_DIFF_AVG_NB - 1
                THEN [ret |-> nb_samples,
                      audio_diff_avg_count |-> e.audio_diff_avg_count + 1]
                ELSE IF avg_over
                THEN LET wanted_nb_samples ==
                           nb_samples + CDiv(diff.v * e.freq, 1000)
                         min_nb_samples ==
                           CDiv(nb_samples * (100 - SAMPLE_CORRECTION_PERCENT_MAX), 100)
                         max_nb_samples ==
                           CDiv(nb_samples * (100 + SAMPLE_CORRECTION_PERCENT_MAX), 100)
                     IN  [ret |-> av_clip(wanted_nb_samples, min_nb_samples, max_nb_samples),
                          audio_diff_avg_count |-> e.audio_diff_avg_count]
                ELSE [ret |-> nb_samples,
                      audio_diff_avg_count |-> e.audio_diff_avg_count]
           ELSE [ret |-> nb_samples, audio_diff_avg_count |-> 0]
  ELSE [ret |-> nb_samples, audio_diff_avg_count |-> e.audio_diff_avg_count]

synchronize_audio(e, nb_samples, avg_over) ==
  IF get_master_sync_type(e) # "AUDIO"
  THEN LET diff == dsub(e.aclock, get_master_clock(e))
       IN  IF ~diff.nan /\ fabs(diff.v) < AV_NOSYNC_THRESHOLD
           THEN IF e.audio_diff_avg_count < AUDIO_DIFF_AVG_NB
                THEN [ret |-> nb_samples,
                      audio_diff_avg_count |-> e.audio_diff_avg_count + 1]
                ELSE IF avg_over
                THEN LET wanted_nb_samples ==
                           nb_samples + CDiv(diff.v * e.freq, 1000)
                         min_nb_samples ==
                           CDiv(nb_samples * (100 - SAMPLE_CORRECTION_PERCENT_MAX), 100)
                         max_nb_samples ==
                           CDiv(nb_samples * (100 + SAMPLE_CORRECTION_PERCENT_MAX), 100)
                     IN  [ret |-> av_clip(wanted_nb_samples, min_nb_samples, max_nb_samples),
                          audio_diff_avg_count |-> e.audio_diff_avg_count]
                ELSE [ret |-> nb_samples,
                      audio_diff_avg_count |-> e.audio_diff_avg_count]
           ELSE [ret |-> nb_samples, audio_diff_avg_count |-> 0]
  ELSE [ret |-> nb_samples, audio_diff_avg_count |-> e.audio_diff_avg_count]

\* SynchronizeAudio() of video_state.cpp
SynchronizeAudio(e, nb_samples, avg_over) ==
  IF GetMasterSyncType(e) # "AUDIO"
  THEN LET diff == dsub(e.aclock, GetMasterClock(e))
       IN  IF ~diff.nan /\ fabs(diff.v) < AV_NOSYNC_THRESHOLD
           THEN IF e.audio_diff_avg_count < AUDIO_DIFF_AVG_NB
                THEN [ret |-> nb_samples,
                      audio_diff_avg_count |-> e.audio_diff_avg_count + 1]
                ELSE IF avg_over
                THEN LET wanted_nb_samples ==
                           nb_samples + CDiv(diff.v * e.freq, 1000)
                         min_nb_samples ==
                           CDiv(nb_samples * (100 - SAMPLE_CORRECTION_PERCENT_MAX), 100)
                         max_nb_samples ==
                           CDiv(nb_samples * (100 + SAMPLE_CORRECTION_PERCENT_MAX), 100)
                     IN  [ret |-> av_clip(wanted_nb_samples, min_nb_samples, max_nb_samples),
                          audio_diff_avg_count |-> e.audio_diff_avg_count]
                ELSE [ret |-> nb_samples,
                      audio_diff_avg_count |-> e.audio_diff_avg_count]
           ELSE [ret |-> nb_samples, audio_diff_avg_count |-> 0]
  ELSE [ret |-> nb_samples, audio_diff_avg_count |-> e.audio_diff_avg_count]

\* values GetClock() of a stream returns: invalid, or a position in ms
ClockVals == {NaN, Dbl(0), Dbl(1), Dbl(100), Dbl(200), Dbl(10000), Dbl(11000)}

\* nominal frame durations passed to compute_target_delay, in ms
Delays == {0, 20, 40, 70, 100, 150}

\* sample counts of a decoded audio frame
NbSamples == {1, 10, 1024}

\* the synchronization state of a session: the configured sync type, the open
\* streams, what each engine's GetClock() returns now, max_frame_duration (10 s
\* or 3600 s), the filter's sample counter and the audio source frequency
SyncStates ==
  [av_sync_type : {"AUDIO", "VIDEO", "EXTERNAL"},
   video_st : BOOLEAN, audio_st : BOOLEAN,
   vclock : ClockVals, aclock : ClockVals, sclock : {NaN, Dbl(200)},
   max_frame_duration : {10000, 3600000},
   audio_diff_avg_count : {0, AUDIO_DIFF_AVG_NB - 1, AUDIO_DIFF_AVG_NB},
   freq : {48000},
   call : {NoCall}]

Call_get_master_sync_type ==
  /\ sy.call.op = "none"
  /\ sy' = [sy EXCEPT !.call = [op |-> "get_master_sync_type", arg |-> 0,
                                ret |-> get_master_sync_type(sy)]]
  /\ UNCHANGED <<mainvars, fqs, cl, ck, pqs, rd, au, sk, so, vf, xs, adf, rl, ed, chp, prc, tp>>

\* AvSyncType of core/types.h has the two values AUDIO_MASTER and VIDEO_MASTER
Call_GetMasterSyncType ==
  /\ sy.call.op = "none"
  /\ sy.av_sync_type # "EXTERNAL"
  /\ sy' = [sy EXCEPT !.call = [op |-> "GetMasterSyncType", arg |-> 0,
                                ret |-> GetMasterSyncType(sy)]]
  /\ UNCHANGED <<mainvars, fqs, cl, ck, pqs, rd, au, sk, so, vf, xs, adf, rl, ed, chp, prc, tp>>

Call_compute_target_delay ==
  /\ sy.call.op = "none"
  /\ \E delay \in Delays :
       sy' = [sy EXCEPT !.call = [op |-> "compute_target_delay", arg |-> delay,
                                  ret |-> compute_target_delay(sy, delay)]]
  /\ UNCHANGED <<mainvars, fqs, cl, ck, pqs, rd, au, sk, so, vf, xs, adf, rl, ed, chp, prc, tp>>

Call_ComputeTargetDelay ==
  /\ sy.call.op = "none"
  /\ sy.av_sync_type # "EXTERNAL"
  /\ \E delay \in Delays :
       sy' = [sy EXCEPT !.call = [op |-> "ComputeTargetDelay", arg |-> delay,
                                  ret |-> ComputeTargetDelay(sy, delay)]]
  /\ UNCHANGED <<mainvars, fqs, cl, ck, pqs, rd, au, sk, so, vf, xs, adf, rl, ed, chp, prc, tp>>

Call_synchronize_audio ==
  /\ sy.call.op = "none"
  /\ \E nb_samples \in NbSamples, avg_over \in BOOLEAN :
       LET r == synchronize_audio(sy, nb_samples, avg_over)
       IN  sy' = [sy EXCEPT !.audio_diff_avg_count = r.audio_diff_avg_count,
                            !.call = [op |-> "synchronize_audio",
                                      arg |-> nb_samples, ret |-> r.ret]]
  /\ UNCHANGED <<mainvars, fqs, cl, ck, pqs, rd, au, sk, so, vf, xs, adf, rl, ed, chp, prc, tp>>

Call_SynchronizeAudio ==
  /\ sy.call.op = "none"
  /\ sy.av_sync_type # "EXTERNAL"
  /\ \E nb_samples \in NbSamples, avg_over \in BOOLEAN :
       LET r == SynchronizeAudio(sy, nb_samples, avg_over)
       IN  sy' = [sy EXCEPT !.audio_diff_avg_count = r.audio_diff_avg_count,
                            !.call = [op |-> "SynchronizeAudio",
                                      arg |-> nb_samples, ret |-> r.ret]]
  /\ UNCHANGED <<mainvars, fqs, cl, ck, pqs, rd, au, sk, so, vf, xs, adf, rl, ed, chp, prc, tp>>

\* the caller has used the value returned
Call_return ==
  /\ sy.call.op # "none"
  /\ sy' = [sy EXCEPT !.call = NoCall]
  /\ UNCHANGED <<mainvars, fqs, cl, ck, pqs, rd, au, sk, so, vf, xs, adf, rl, ed, chp, prc, tp>>

InitSync ==
  /\ MainVarsInit
  /\ fqs = NotRunning
  /\ cl = NotRunning
  /\ sy \in SyncStates
  /\ ck = NotRunning
  /\ pqs = NotRunning
  /\ rd = NotRunning
  /\ au = NotRunning
  /\ sk = NotRunning
  /\ so = NotRunning
  /\ vf = NotRunning
  /\ xs = NotRunning
  /\ adf = NotRunning
  /\ rl = NotRunning
  /\ ed = NotRunning
  /\ chp = NotRunning
  /\ prc = NotRunning
  /\ tp = NotRunning

NextSync ==
  \/ Call_get_master_sync_type \/ Call_GetMasterSyncType
  \/ Call_compute_target_delay \/ Call_ComputeTargetDelay
  \/ Call_synchronize_audio \/ Call_SynchronizeAudio
  \/ Call_return

SpecSync == InitSync /\ [][NextSync]_vars

\* C6: the master sync type selection returns VIDEO_MASTER if video master is
\* configured and a video stream is open; otherwise AUDIO_MASTER if audio
\* master is configured and an audio stream is open; otherwise
\* EXTERNAL_MASTER, for every combination of configured preference and open
\* streams.
C6_MasterSyncTypeFallbackChain ==
  (sy.call.op \in {"get_master_sync_type", "GetMasterSyncType"}) =>
    sy.call.ret = (IF sy.av_sync_type = "VIDEO" /\ sy.video_st THEN "VIDEO"
                   ELSE IF sy.av_sync_type = "AUDIO" /\ sy.audio_st THEN "AUDIO"
                   ELSE "EXTERNAL")

\* a compute_target_delay call (either implementation) made with audio and
\* video open, audio as master, and the video clock at distance d from the
\* audio clock
C7_Case(d) ==
  /\ sy.call.op \in {"compute_target_delay", "ComputeTargetDelay"}
  /\ sy.video_st /\ sy.audio_st
  /\ (sy.call.op = "compute_target_delay" => get_master_sync_type(sy) = "AUDIO")
  /\ (sy.call.op = "ComputeTargetDelay" => GetMasterSyncType(sy) = "AUDIO")
  /\ ~sy.vclock.nan /\ ~sy.aclock.nan
  /\ sy.vclock.v - sy.aclock.v = d

\* C7 as stated: with audio and video open and audio as master, when the video
\* clock lags the audio clock by 0.2 s, compute_target_delay(nominal) returns
\* 2 * nominal.
C7_LagDoublesDelay == C7_Case(-200) => sy.call.ret = 2 * sy.call.arg

\* C7: with audio and video open and audio as master, when the video clock lags
\* the audio clock by 0.2 s compute_target_delay(nominal) returns
\* max(0, nominal - 0.2); when it leads by 0.2 s the result is 2 * nominal for
\* nominal <= 0.1 s and nominal + 0.2 above.
C7_LagShrinksLeadRepeats ==
  /\ C7_Case(-200) =>
       sy.call.ret = (IF sy.call.arg > 200 THEN sy.call.arg - 200 ELSE 0)
  /\ C7_Case(200) =>
       sy.call.ret = (IF sy.call.arg <= 100 THEN 2 * sy.call.arg
                      ELSE sy.call.arg + 200)

\* C7 witness: a 40 ms frame while video lags audio by 0.2 s: delay 0
C7_Witness == C7_Case(-200) /\ sy.call.arg = 40 /\ sy.call.ret = 0

\* the delay as a function of the four values alone
C8_delay_of(video_clock, master_clock, nominal_duration, max_frame_duration) ==
  LET d == IF video_clock.nan \/ master_clock.nan THEN 0
           ELSE video_clock.v - master_clock.v
      a == IF d < 0 THEN -d ELSE d
      t == IF nominal_duration < 40 THEN 40
           ELSE IF nominal_duration > 100 THEN 100 ELSE nominal_duration
  IN  IF a >= max_frame_duration \/ a < t THEN nominal_duration
      ELSE IF d < 0
      THEN (IF nominal_duration + d > 0 THEN nominal_duration + d ELSE 0)
      ELSE IF nominal_duration > 100 THEN nominal_duration + d
      ELSE 2 * nominal_duration

C8_ResultDependsOnFourInputs ==
  /\ (sy.call.op = "compute_target_delay") =>
       sy.call.ret = C8_delay_of(sy.vclock, get_master_clock(sy), sy.call.arg,
                                 sy.max_frame_duration)
  /\ (sy.call.op = "ComputeTargetDelay") =>
       sy.call.ret = C8_delay_of(sy.vclock, GetMasterClock(sy), sy.call.arg,
                                 sy.max_frame_duration)

C8_CallChangesNoState ==
  (sy'.call.op \in {"compute_target_delay", "ComputeTargetDelay"}
     /\ sy.call.op = "none")
  => /\ [sy' EXCEPT !.call = NoCall] = sy
     /\ UNCHANGED <<mainvars, fqs, cl, ck, pqs, rd, au, sk, so, vf, xs, adf, rl, ed, chp, prc, tp>>

\* C8: compute_target_delay is a function of (video_clock, master_clock,
\* nominal_duration, max_frame_duration) alone: whatever the configured sync
\* type, the open streams and the other clocks, the delay returned is the one
\* these four values determine, and the call changes no state of the engine.
C8_TargetDelayIsPure ==
  [](C8_ResultDependsOnFourInputs) /\ [][C8_CallChangesNoState]_vars

\* C8 witness: the master is the external clock, which differs from the audio
\* clock, and the delay was corrected against it
C8_Witness ==
  /\ sy.call.op = "compute_target_delay"
  /\ get_master_sync_type(sy) = "EXTERNAL"
  /\ sy.vclock = Dbl(0) /\ sy.aclock = Dbl(0) /\ sy.sclock = Dbl(200)
  /\ sy.call.arg = 40
  /\ sy.call.ret = 0

\* C9 as stated: synchronize_audio(nb_samples) returns a value inside
\* [nb_samples * 0.9, nb_samples * 1.1].
C9_WithinTenPercent ==
  (sy.call.op \in {"synchronize_audio", "SynchronizeAudio"}) =>
    /\ 10 * sy.call.ret >= 9 * sy.call.arg
    /\ 10 * sy.call.ret <= 11 * sy.call.arg

\* C9: for every state of the clocks and of the averaging filter,
\* synchronize_audio(nb_samples) returns an integer between nb_samples*90/100
\* and nb_samples*110/100, both divisions truncating: it is never above
\* nb_samples * 1.1 and less than one sample below nb_samples * 0.9.
C9_WithinTruncatedTenPercent ==
  (sy.call.op \in {"synchronize_audio", "SynchronizeAudio"}) =>
    /\ sy.call.ret >= (sy.call.arg * 90) \div 100
    /\ sy.call.ret <= (sy.call.arg * 110) \div 100
    /\ 10 * sy.call.ret > 9 * sy.call.arg - 10
    /\ 10 * sy.call.ret <= 11 * sy.call.arg

\* C9 witness: 1024 samples corrected down to the lower bound 921
C9_Witness ==
  /\ sy.call.op = "synchronize_audio"
  /\ sy.call.arg = 1024
  /\ sy.call.ret = 921

\* a compute_target_delay call of either implementation has returned
CTD_called == sy.call.op \in {"compute_target_delay", "ComputeTargetDelay"}

\* the master the implementation called takes: video or not
CTD_video_is_master ==
  IF sy.call.op = "compute_target_delay"
  THEN get_master_sync_type(sy) = "VIDEO"
  ELSE GetMasterSyncType(sy) = "VIDEO"

\* diff = video_clock - master_clock, with the master clock that
\* implementation reads
CTD_diff ==
  dsub(sy.vclock, IF sy.call.op = "compute_target_delay"
                  THEN get_master_clock(sy) ELSE GetMasterClock(sy))

\* sync_threshold = clamp(nominal_duration, 0.04, 0.1)
CTD_sync_threshold ==
  IF sy.call.arg < 40 THEN 40 ELSE IF sy.call.arg > 100 THEN 100
  ELSE sy.call.arg

\* video is not the master and |diff| < max_frame_duration
CTD_in_range ==
  /\ CTD_called
  /\ ~CTD_video_is_master
  /\ ~CTD_diff.nan
  /\ CTD_diff.v < sy.max_frame_duration
  /\ -CTD_diff.v < sy.max_frame_duration

\* C22: when video is not the master, |diff| < max_frame_duration and
\* diff <= -sync_threshold, compute_target_delay returns
\* max(0, nominal_duration + diff); for every non-negative nominal_duration
\* and every clock state the delay returned is never negative.
C22_ShrinkNeverNegative ==
  /\ (CTD_in_range /\ CTD_diff.v <= -CTD_sync_threshold) =>
       sy.call.ret = (IF sy.call.arg + CTD_diff.v > 0
                      THEN sy.call.arg + CTD_diff.v ELSE 0)
  /\ CTD_called => sy.call.ret >= 0

\* video lags the external master by exactly the threshold of a 150 ms frame,
\* which is shown for 50 ms
C22_Witness ==
  /\ sy.call.op = "compute_target_delay"
  /\ get_master_sync_type(sy) = "EXTERNAL"
  /\ sy.vclock = Dbl(100) /\ sy.sclock = Dbl(200)
  /\ sy.call.arg = 150
  /\ sy.call.ret = 50

\* C23: when video is not the master, |diff| < max_frame_duration and
\* diff >= sync_threshold, compute_target_delay returns nominal_duration + diff
\* if nominal_duration exceeds the duplicate threshold (0.1 s) and
\* 2 * nominal_duration otherwise, with
\* sync_threshold = clamp(nominal_duration, 0.04, 0.1).
C23_LeadStretchesOrRepeats ==
  (CTD_in_range /\ CTD_diff.v >= CTD_sync_threshold) =>
    sy.call.ret = (IF sy.call.arg > AV_SYNC_FRAMEDUP_THRESHOLD
                   THEN sy.call.arg + CTD_diff.v
                   ELSE 2 * sy.call.arg)

\* video leads the audio master by exactly 0.1 s, the threshold of a 100 ms
\* frame, which is not above the duplicate threshold: it is shown twice as long
C23_Witness ==
  /\ sy.call.op = "ComputeTargetDelay"
  /\ GetMasterSyncType(sy) = "AUDIO"
  /\ sy.vclock = Dbl(200) /\ sy.aclock = Dbl(100)
  /\ sy.call.arg = 100
  /\ sy.call.ret = 200

\* a 150 ms frame while video leads by 0.1 s is shown for 250 ms
C23_WitnessStretch ==
  /\ sy.call.op = "compute_target_delay"
  /\ get_master_sync_type(sy) = "AUDIO"
  /\ sy.vclock = Dbl(200) /\ sy.aclock = Dbl(100)
  /\ sy.call.arg = 150
  /\ sy.call.ret = 250

\* C24: compute_target_delay returns nominal_duration unchanged whenever no
\* drift correction applies: video is the master, or the video or the master
\* clock is NaN, or |diff| >= max_frame_duration, or |diff| < sync_threshold.
C24_NoCorrectionKeepsDelay ==
  (CTD_called
     /\ \/ ~CTD_in_range
        \/ /\ CTD_diff.v < CTD_sync_threshold
           /\ -CTD_diff.v < CTD_sync_threshold)
  => sy.call.ret = sy.call.arg

\* the video clock is 10 s ahead of the audio master with max_frame_duration
\* 10 s: no correction, though the lead is far above the threshold
C24_Witness ==
  /\ sy.call.op = "compute_target_delay"
  /\ get_master_sync_type(sy) = "AUDIO"
  /\ sy.vclock = Dbl(10000) /\ sy.aclock = Dbl(0)
  /\ sy.max_frame_duration = 10000
  /\ sy.call.arg = 40
  /\ sy.call.ret = 40

\* the lead of 99 ms stays below the 100 ms threshold of a 150 ms frame
C24_WitnessBelowThreshold ==
  /\ sy.call.op = "ComputeTargetDelay"
  /\ GetMasterSyncType(sy) = "AUDIO"
  /\ sy.vclock = Dbl(100) /\ sy.aclock = Dbl(1)
  /\ sy.call.arg = 150
  /\ sy.call.ret = 150

(***************************************************************************)
(* Specification SpecClock: the clock of the video stream engine of        *)
(* core/video_state.cpp, the serial of the engine's packet queue and the   *)
(* system time, under the callers that set and read the clock.  Video is   *)
(* the master stream.                                                      *)
(***************************************************************************)
dadd(a, b) == IF a.nan \/ b.nan THEN NaN ELSE Dbl(a.v + b.v)

GetClock_ignores_serial(c, queue_serial, now) ==
  IF c.paused THEN c.pts ELSE dadd(c.pts_drift, Dbl(now))

\* GetClock(): NaN when the clock's serial is not the queue's, else the frozen
\* pts when paused, else pts_drift + now (speed 1)
GetClock(c, queue_serial, now) ==
  IF c.serial # queue_serial THEN NaN
  ELSE IF c.paused THEN c.pts
  ELSE dadd(c.pts_drift, Dbl(now))

\* SetClock(pts, serial): pins the clock to pts at the current time
SetClock(c, pts, serial, now) ==
  [c EXCEPT !.pts = pts, !.last_updated = now,
            !.pts_drift = dsub(pts, Dbl(now)), !.serial = serial]

\* SyncSerialClock(): SetClock(GetClock(), serial) with the clock's own serial
SyncSerialClock(c, queue_serial, now) ==
  SetClock(c, GetClock(c, queue_serial, now), c.serial, now)

SetPaused(c, p) == [c EXCEPT !.paused = p]

\* the video clock as get_master_clock() reads it, video being the master
CK_engine ==
  [av_sync_type |-> "VIDEO", video_st |-> TRUE, audio_st |-> FALSE,
   vclock |-> GetClock(ck.clock, ck.queue_serial, ck.now),
   aclock |-> NaN, sclock |-> NaN]

\* av_gettime_relative() advances
CK_tick ==
  /\ ck.now < MaxTime
  /\ ck' = [ck EXCEPT !.now = @ + 1]
  /\ UNCHANGED <<mainvars, fqs, cl, sy, pqs, rd, au, sk, so, vf, xs, adf, rl, ed, chp, prc, tp>>

\* read_thread, seek: packet_queue_->flush() bumps the queue's serial
CK_seek_flush ==
  /\ ck.queue_serial < MaxFlush
  /\ ck' = [ck EXCEPT !.queue_serial = @ + 1]
  /\ UNCHANGED <<mainvars, fqs, cl, sy, pqs, rd, au, sk, so, vf, xs, adf, rl, ed, chp, prc, tp>>

\* video_refresh -> update_video_pts(vp->pts, vp->pos, vp->serial): the frame
\* was decoded under the current serial or under an earlier one
CK_update_video_pts ==
  /\ \E pts \in {0, 100}, serial \in 0..ck.queue_serial :
       ck' = [ck EXCEPT !.clock = SetClock(@, Dbl(pts), serial, ck.now)]
  /\ UNCHANGED <<mainvars, fqs, cl, sy, pqs, rd, au, sk, so, vf, xs, adf, rl, ed, chp, prc, tp>>

\* stream_toggle_pause() that leaves the video clock running
CK_stream_toggle_pause_clock_runs ==
  /\ \E pause_supported \in BOOLEAN :
       LET c1 == IF ck.paused
                 THEN SyncSerialClock(
                        IF pause_supported THEN SetPaused(ck.clock, FALSE)
                        ELSE ck.clock,
                        ck.queue_serial, ck.now)
                 ELSE ck.clock
       IN  ck' = [ck EXCEPT !.paused = ~ck.paused, !.clock = c1]
  /\ UNCHANGED <<mainvars, fqs, cl, sy, pqs, rd, au, sk, so, vf, xs, adf, rl, ed, chp, prc, tp>>

\* stream_toggle_pause(); read_pause is supported or not (read_pause_return)
CK_stream_toggle_pause ==
  /\ \E pause_supported \in BOOLEAN :
       LET c1 == IF ck.paused
                 THEN SyncSerialClock(
                        IF pause_supported THEN SetPaused(ck.clock, FALSE)
                        ELSE ck.clock,
                        ck.queue_serial, ck.now)
                 ELSE ck.clock
       IN  ck' = [ck EXCEPT !.paused = ~ck.paused,
                            !.clock = SetPaused(c1, ~ck.paused)]
  /\ UNCHANGED <<mainvars, fqs, cl, sy, pqs, rd, au, sk, so, vf, xs, adf, rl, ed, chp, prc, tp>>

\* exec(), seek keys: pos = get_master_clock(); if (isnan(pos)) the position
\* of the last seek is used instead
CK_exec_seek ==
  /\ ck' = [ck EXCEPT !.pos = get_master_clock(CK_engine),
                      !.pos_stale = (ck.clock.serial # ck.queue_serial)]
  /\ UNCHANGED <<mainvars, fqs, cl, sy, pqs, rd, au, sk, so, vf, xs, adf, rl, ed, chp, prc, tp>>

InitClock ==
  /\ MainVarsInit
  /\ fqs = NotRunning
  /\ cl = NotRunning
  /\ sy = NotRunning
  /\ ck = ClockAtOpen
  /\ pqs = NotRunning
  /\ rd = NotRunning
  /\ au = NotRunning
  /\ sk = NotRunning
  /\ so = NotRunning
  /\ vf = NotRunning
  /\ xs = NotRunning
  /\ adf = NotRunning
  /\ rl = NotRunning
  /\ ed = NotRunning
  /\ chp = NotRunning
  /\ prc = NotRunning
  /\ tp = NotRunning

NextClock ==
  \/ CK_tick \/ CK_seek_flush \/ CK_update_video_pts
  \/ CK_stream_toggle_pause \/ CK_exec_seek

SpecClock == InitClock /\ [][NextClock]_vars

C10_StaleClockIsInvalid ==
  /\ (ck.clock.serial # ck.queue_serial)
       => GetClock(ck.clock, ck.queue_serial, ck.now).nan
  /\ ck.pos_stale => ck.pos.nan

C10_ValidAgainStep ==
  (/\ ck.clock.serial # ck.queue_serial
   /\ ~GetClock(ck'.clock, ck'.queue_serial, ck'.now).nan)
  => /\ ck'.clock.serial = ck'.queue_serial
     /\ ck'.queue_serial = ck.queue_serial
     /\ ck'.clock.last_updated = ck.now
     /\ ~ck'.clock.pts.nan

\* C10: whenever the packet queue's serial has advanced past the serial
\* recorded in the stream's clock, GetClock() on that clock (and so
\* get_master_clock()) is NaN, however recently the clock was set; the clock
\* reads valid again only by a SetClock made with the queue's current serial.
C10_StaleSerialInvalidatesClock ==
  [](C10_StaleClockIsInvalid) /\ [][C10_ValidAgainStep]_vars

\* C10 witness: the clock was set at this very instant, with the pts of a frame
\* decoded before the flush
C10_Witness ==
  /\ ck.clock.serial >= 0
  /\ ck.clock.serial < ck.queue_serial
  /\ ck.clock.last_updated = ck.now
  /\ ck.now > 0
  /\ ~ck.clock.pts.nan
  /\ ~ck.clock.paused

\* C11: a stream clock pinned with SetClock(pts, serial) at system time T and
\* read at T + d with the queue's serial still equal to the clock's returns
\* pts + d while the player is not paused (speed 1), and exactly pts, for
\* every d, while the player is paused.
C11_ClockExtrapolates ==
  (ck.clock.serial = ck.queue_serial /\ ~ck.clock.pts.nan) =>
    GetClock(ck.clock, ck.queue_serial, ck.now) =
      IF ck.paused THEN ck.clock.pts
      ELSE Dbl(ck.clock.pts.v + (ck.now - ck.clock.last_updated))

\* C11 witness: pts 100 pinned at time 1 reads 102 at time 3, not paused
C11_Witness ==
  /\ ck.clock.serial = ck.queue_serial
  /\ ~ck.paused
  /\ ck.clock.pts = Dbl(100)
  /\ ck.clock.last_updated = 1
  /\ ck.now = 3
  /\ GetClock(ck.clock, ck.queue_serial, ck.now) = Dbl(102)

\* C11 witness of the paused case: the clock pinned at time 0 still reads its
\* pts at time 2
C11_WitnessPaused ==
  /\ ck.clock.serial = ck.queue_serial
  /\ ck.paused
  /\ ck.clock.pts = Dbl(100)
  /\ ck.clock.last_updated = 0
  /\ ck.now = 2

(***************************************************************************)
(* Specification SpecClose: StreamComponentClose of video_state.cpp on the *)
(* main thread against VideoThread / QueuePicture on the video decoder     *)
(* thread.  The main thread is the one that handles FF_ALLOC_EVENT.        *)
(***************************************************************************)
\* notify on the frame queue's condition variable: the thread waiting on it
\* goes back to re-check the predicate it waits for
SC_notified(pc) ==
  CASE pc = "pw_wait" -> "peek_writable"
    [] pc = "alloc_wait" -> "alloc_check"
    [] OTHER -> pc

\* HandleAllocPictureEvent -> AllocPicture (the window and the texture being
\* available): the slot at windex is marked allocated under the queue's lock
\* and the condition is notified
SC_HandleAllocPictureEvent ==
  /\ cl.pc_main = "loop"
  /\ cl.alloc_event
  /\ cl' = [cl EXCEPT !.alloc_event = FALSE,
                      !.fq.queue[cl.fq.windex].allocated = TRUE,
                      !.pc_dec = SC_notified(@)]
  /\ UNCHANGED <<mainvars, fqs, sy, ck, pqs, rd, au, sk, so, vf, xs, adf, rl, ed, chp, prc, tp>>

\* VideoRefresh: a queued frame is due, MoveToNext() frees a slot and notifies
SC_VideoRefresh ==
  /\ cl.pc_main = "loop"
  /\ FQ_nb_remaining(cl.fq) > 0
  /\ cl' = [cl EXCEPT !.fq = FQ_next(@), !.pc_dec = SC_notified(@)]
  /\ UNCHANGED <<mainvars, fqs, sy, ck, pqs, rd, au, sk, so, vf, xs, adf, rl, ed, chp, prc, tp>>

\* StreamComponentClose, line 462: video_frame_queue_->Stop()
SC_Stop ==
  /\ cl.pc_main = "loop"
  /\ cl' = [cl EXCEPT !.stoped = TRUE, !.pc_dec = SC_notified(@),
                      !.pc_main = "close_abort"]
  /\ UNCHANGED <<mainvars, fqs, sy, ck, pqs, rd, au, sk, so, vf, xs, adf, rl, ed, chp, prc, tp>>

\* line 463: viddec_->Abort(), the abort of the decoder's packet queue; a
\* decoder waiting for a packet is woken
SC_Abort ==
  /\ cl.pc_main = "close_abort"
  /\ cl' = [cl EXCEPT !.pq_abort = TRUE, !.pc_main = "close_join"]
  /\ UNCHANGED <<mainvars, fqs, sy, ck, pqs, rd, au, sk, so, vf, xs, adf, rl, ed, chp, prc, tp>>

\* line 464: vdecoder_tid_->join()
SC_Join ==
  /\ cl.pc_main = "close_join"
  /\ cl.pc_dec = "done"
  /\ cl' = [cl EXCEPT !.pc_main = "closed"]
  /\ UNCHANGED <<mainvars, fqs, sy, ck, pqs, rd, au, sk, so, vf, xs, adf, rl, ed, chp, prc, tp>>

\* VideoThread -> GetVideoFrame -> DecodeFrame: negative once the packet queue
\* is aborted
VT_GetVideoFrame ==
  /\ cl.pc_dec = "decode"
  /\ cl' = [cl EXCEPT !.pc_dec = IF cl.pq_abort THEN "done"
                                 ELSE "peek_writable"]
  /\ UNCHANGED <<mainvars, fqs, sy, ck, pqs, rd, au, sk, so, vf, xs, adf, rl, ed, chp, prc, tp>>

\* QueuePicture, lines 1401-1423: GetPeekWritable() (NULL once stopped, waits
\* while full), then the allocation request to the main thread
VT_GetPeekWritable ==
  /\ cl.pc_dec = "peek_writable"
  /\ cl' = IF cl.stoped THEN [cl EXCEPT !.pc_dec = "done"]
           ELSE IF FQ_full(cl.fq) THEN [cl EXCEPT !.pc_dec = "pw_wait"]
           ELSE IF ~cl.fq.queue[cl.fq.windex].allocated
           THEN [cl EXCEPT !.alloc_event = TRUE, !.pc_dec = "alloc_check"]
           ELSE [cl EXCEPT !.pc_dec = "push"]
  /\ UNCHANGED <<mainvars, fqs, sy, ck, pqs, rd, au, sk, so, vf, xs, adf, rl, ed, chp, prc, tp>>

\* lines 1425-1427: WaitSafeAndNotify waits on the frame queue's condition
\* while !vp->allocated && !video_packet_queue->AbortRequest()
VT_WaitAllocated ==
  /\ cl.pc_dec = "alloc_check"
  /\ cl' = [cl EXCEPT !.pc_dec =
              IF ~cl.fq.queue[cl.fq.windex].allocated /\ ~cl.pq_abort
              THEN "alloc_wait" ELSE "alloc_after"]
  /\ UNCHANGED <<mainvars, fqs, sy, ck, pqs, rd, au, sk, so, vf, xs, adf, rl, ed, chp, prc, tp>>

\* lines 1429-1431: if (video_packet_queue->AbortRequest()) return error
VT_AfterWait ==
  /\ cl.pc_dec = "alloc_after"
  /\ cl' = [cl EXCEPT !.pc_dec = IF cl.pq_abort THEN "done" ELSE "push"]
  /\ UNCHANGED <<mainvars, fqs, sy, ck, pqs, rd, au, sk, so, vf, xs, adf, rl, ed, chp, prc, tp>>

\* lines 1434-1443: fill the slot and Push()
VT_Push ==
  /\ cl.pc_dec = "push"
  /\ cl' = [cl EXCEPT !.fq = FQ_push(@), !.pc_dec = "decode"]
  /\ UNCHANGED <<mainvars, fqs, sy, ck, pqs, rd, au, sk, so, vf, xs, adf, rl, ed, chp, prc, tp>>

InitClose ==
  /\ MainVarsInit
  /\ fqs = NotRunning
  /\ cl = CloseInit
  /\ sy = NotRunning
  /\ ck = NotRunning
  /\ pqs = NotRunning
  /\ rd = NotRunning
  /\ au = NotRunning
  /\ sk = NotRunning
  /\ so = NotRunning
  /\ vf = NotRunning
  /\ xs = NotRunning
  /\ adf = NotRunning
  /\ rl = NotRunning
  /\ ed = NotRunning
  /\ chp = NotRunning
  /\ prc = NotRunning
  /\ tp = NotRunning

NextClose ==
  \/ SC_HandleAllocPictureEvent \/ SC_VideoRefresh
  \/ SC_Stop \/ SC_Abort \/ SC_Join
  \/ VT_GetVideoFrame \/ VT_GetPeekWritable \/ VT_WaitAllocated
  \/ VT_AfterWait \/ VT_Push

SpecClose == InitClose /\ [][NextClose]_vars

\* C5: once a stream component is being closed, the decoder thread can always
\* be joined: the main thread is never waiting in join() for a video decoder
\* that is still blocked in QueuePicture's wait for its picture to be allocated,
\* for every ordering of Stop()'s notify, the packet queue's abort and the
\* decoder's re-check of its wait predicate.
C5_DecoderReleasedOnClose ==
  ~(cl.pc_main = "close_join" /\ cl.pc_dec = "alloc_wait")

(***************************************************************************)
(* Specification SpecPQ: one stream's packet queue of core/video_state.cpp *)
(* under the reader thread (put, put_nullpacket, flush on seek), the       *)
(* stream's decoder thread (get) and the main thread closing the stream    *)
(* component (abort).                                                      *)
(***************************************************************************)
\* the packets av_read_frame() delivers for the stream
Packets ==
  {[kind |-> "data", size |-> sz, duration |-> du] : sz \in {1, 2}, du \in {0, 3}}

\* SDL_CondSignal on the packet queue's condition: a decoder waiting in get()
\* goes back to re-check the queue
PKQ_signalled(pc) == IF pc = "get_wait" THEN "get_woken" ELSE pc

\* the record of a call that has returned
QueueCall(op, ret, pkt, serial, block) ==
  [op |-> op, ret |-> ret, pkt |-> pkt, serial |-> serial, block |-> block,
   n |-> 1 - pqs.call.n]

\* what a put of pkt by the reader thread does to the state
PKQ_put(pkt, pc_rd_next) ==
  LET r == PacketQueue_put(pqs.q, pkt) IN
  pqs' = [pqs EXCEPT
            !.q = r.q,
            !.pc_rd = pc_rd_next,
            !.pc_dec = IF r.signal THEN PKQ_signalled(@) ELSE @,
            !.call = QueueCall("put", r.ret, pkt, -1, FALSE),
            !.pending = IF r.ret >= 0
                        THEN Append(@, [pkt |-> pkt, serial |-> pqs.q.serial])
                        ELSE @]

\* read_thread: the packet read belongs to the stream and is queued; the
\* reader reads on only while the queues are not full
PKQ_read_put ==
  /\ pqs.pc_rd = "loop"
  /\ PacketQueue_nb_packets(pqs.q) < MaxQueued
  /\ \E pkt \in Packets : PKQ_put(pkt, "loop")
  /\ UNCHANGED <<mainvars, fqs, cl, sy, ck, rd, au, sk, so, vf, xs, adf, rl, ed, chp, prc, tp>>

\* read_thread at end of file: put_nullpacket(stream)
PKQ_read_put_nullpacket ==
  /\ pqs.pc_rd = "loop"
  /\ PacketQueue_nb_packets(pqs.q) < MaxQueued
  /\ PKQ_put(null_pkt, "loop")
  /\ UNCHANGED <<mainvars, fqs, cl, sy, ck, rd, au, sk, so, vf, xs, adf, rl, ed, chp, prc, tp>>

\* read_thread, seek: packet_queue_->flush()
PKQ_read_seek_flush ==
  /\ pqs.pc_rd = "loop"
  /\ pqs.q.serial < MaxFlush
  /\ pqs' = [pqs EXCEPT !.q = PacketQueue_flush(@),
                        !.pc_rd = "seek_put",
                        !.call = QueueCall("flush", 0, NoPacket, -1, FALSE),
                        !.pending = <<>>]
  /\ UNCHANGED <<mainvars, fqs, cl, sy, ck, rd, au, sk, so, vf, xs, adf, rl, ed, chp, prc, tp>>

\* read_thread, seek: packet_queue_->put(PacketQueue::flush_pkt())
PKQ_read_seek_put ==
  /\ pqs.pc_rd = "seek_put"
  /\ PKQ_put(flush_pkt, "loop")
  /\ UNCHANGED <<mainvars, fqs, cl, sy, ck, rd, au, sk, so, vf, xs, adf, rl, ed, chp, prc, tp>>

\* the decoder thread asks for its next packet, blocking or not; woken from a
\* wait it re-checks the queue; a negative result ends the thread
PKQ_decoder_get ==
  /\ pqs.pc_dec \in {"idle", "get_woken"}
  /\ \E block \in (IF pqs.pc_dec = "idle" THEN BOOLEAN ELSE {TRUE}) :
       LET r == PacketQueue_get(pqs.q, block) IN
       pqs' = IF r.wait
              THEN [pqs EXCEPT !.pc_dec = "get_wait"]
              ELSE [pqs EXCEPT
                      !.q = r.q,
                      !.pc_dec = IF r.ret < 0 THEN "done" ELSE "idle",
                      !.call = QueueCall("get", r.ret, r.pkt, r.serial, block),
                      !.pending = IF r.ret > 0 THEN Tail(@) ELSE @]
  /\ UNCHANGED <<mainvars, fqs, cl, sy, ck, rd, au, sk, so, vf, xs, adf, rl, ed, chp, prc, tp>>

\* stream_component_close: the decoder's abort aborts its packet queue
PKQ_close_abort ==
  /\ pqs.pc_main = "loop"
  /\ LET r == PacketQueue_abort(pqs.q) IN
     pqs' = [pqs EXCEPT !.q = r.q,
                        !.pc_main = "close_join",
                        !.pc_dec = IF r.signal THEN PKQ_signalled(@) ELSE @]
  /\ UNCHANGED <<mainvars, fqs, cl, sy, ck, rd, au, sk, so, vf, xs, adf, rl, ed, chp, prc, tp>>

InitPQ ==
  /\ MainVarsInit
  /\ fqs = NotRunning
  /\ cl = NotRunning
  /\ sy = NotRunning
  /\ ck = NotRunning
  /\ pqs = PqsInit
  /\ rd = NotRunning
  /\ au = NotRunning
  /\ sk = NotRunning
  /\ so = NotRunning
  /\ vf = NotRunning
  /\ xs = NotRunning
  /\ adf = NotRunning
  /\ rl = NotRunning
  /\ ed = NotRunning
  /\ chp = NotRunning
  /\ prc = NotRunning
  /\ tp = NotRunning

NextPQ ==
  \/ PKQ_read_put \/ PKQ_read_put_nullpacket
  \/ PKQ_read_seek_flush \/ PKQ_read_seek_put
  \/ PKQ_decoder_get \/ PKQ_close_abort

SpecPQ == InitPQ /\ [][NextPQ]_vars

\* the scheduler runs the decoder thread whenever it can take a step
SpecPQFair == SpecPQ /\ WF_vars(PKQ_decoder_get)

(***************************************************************************)
(* Claims checked under SpecPQ and SpecPQFair.                             *)
(***************************************************************************)
C12_NoWaiterAfterAbort == pqs.q.abort_request => pqs.pc_dec # "get_wait"

\* a get or a put that returns on an aborted queue fails, changes nothing and
\* no step taken on an aborted queue leaves the decoder waiting
C12_AbortedCallStep ==
  pqs.q.abort_request =>
    /\ pqs'.pc_dec # "get_wait"
    /\ (pqs'.call # pqs.call /\ pqs'.call.op \in {"get", "put"}) =>
         /\ pqs'.call.ret < 0
         /\ pqs'.q = pqs.q

\* the non-blocking get on a queue that is not aborted
C12_NonBlockingGetStep ==
  (/\ ~pqs.q.abort_request
   /\ pqs'.call # pqs.call
   /\ pqs'.call.op = "get"
   /\ ~pqs'.call.block) =>
    IF pqs.q.list = <<>>
    THEN pqs'.call.ret = 0 /\ pqs'.q = pqs.q /\ pqs'.pc_dec = "idle"
    ELSE /\ pqs'.call.ret > 0
         /\ pqs'.call.pkt = Head(pqs.q.list).pkt
         /\ pqs'.call.serial = Head(pqs.q.list).serial

\* the decoder woken by the abort gets the aborted status and ends
C12_BlockedConsumerReleased ==
  (pqs.pc_dec = "get_woken" /\ pqs.q.abort_request)
    ~> (pqs.pc_dec = "done" /\ pqs.call.op = "get" /\ pqs.call.ret < 0)

\* C12: after abort() on a packet queue the consumer blocked in get() is
\* released, and every later get() returns the aborted status (< 0) and
\* every later put() reports failure, without blocking; a non-blocking get()
\* on a queue that is not aborted returns 0 on an empty queue and > 0
\* together with the packet and its serial otherwise.
C12_AbortReleasesGetAndPut ==
  /\ [](C12_NoWaiterAfterAbort)
  /\ [][C12_AbortedCallStep]_vars
  /\ [][C12_NonBlockingGetStep]_vars
  /\ C12_BlockedConsumerReleased

\* C12 witness: the decoder was blocked in get() on the empty queue and the
\* abort has woken it
C12_Witness ==
  /\ pqs.q.abort_request
  /\ pqs.pc_dec = "get_woken"
  /\ pqs.q.list = <<>>
  /\ pqs.pc_main = "close_join"

\* total byte size and total duration of a sequence of queued packets
RECURSIVE SumSize(_)
SumSize(seq) ==
  IF seq = <<>> THEN 0 ELSE Head(seq).pkt.size + SumSize(Tail(seq))

RECURSIVE SumDuration(_)
SumDuration(seq) ==
  IF seq = <<>> THEN 0 ELSE Head(seq).pkt.duration + SumDuration(Tail(seq))

C13_CountersMatchPending ==
  /\ PacketQueue_nb_packets(pqs.q) = Len(pqs.pending)
  /\ PacketQueue_size(pqs.q) = SumSize(pqs.pending)
  /\ PacketQueue_duration(pqs.q) = SumDuration(pqs.pending)

C13_FlushZeroStep ==
  (pqs'.call # pqs.call /\ pqs'.call.op = "flush") =>
    /\ PacketQueue_nb_packets(pqs'.q) = 0
    /\ PacketQueue_size(pqs'.q) = 0
    /\ PacketQueue_duration(pqs'.q) = 0

\* C13: after any sequence of put, put_nullpacket, get and flush on a packet
\* queue, nb_packets(), size() and duration() equal the count, the total
\* byte size and the total duration of exactly the packets enqueued but not
\* yet dequeued; after flush() all three are zero.
C13_CountersAreExact ==
  [](C13_CountersMatchPending) /\ [][C13_FlushZeroStep]_vars

\* C13 witness: after a flush, the get of the flush packet, a put of a data
\* packet (2 bytes, duration 3) and a put_nullpacket
C13_Witness ==
  /\ pqs.q.serial = 1
  /\ Len(pqs.pending) = 2
  /\ pqs.pending[1].pkt = [kind |-> "data", size |-> 2, duration |-> 3]
  /\ pqs.pending[2].pkt = null_pkt
  /\ PacketQueue_size(pqs.q) = 2
  /\ PacketQueue_duration(pqs.q) = 3

C14_StoredSerials == pqs.q.list = pqs.pending

C14_QueuedSerialIsCurrent ==
  \A i \in 1..Len(pqs.q.list) : pqs.q.list[i].serial = pqs.q.serial

\* a put that succeeds stores the packet with the queue's serial
C14_PutStep ==
  (pqs'.call # pqs.call /\ pqs'.call.op = "put" /\ pqs'.call.ret >= 0) =>
    pqs'.q.list =
      Append(pqs.q.list, [pkt |-> pqs'.call.pkt, serial |-> pqs.q.serial])

\* a get that hands out a packet reports the serial stored with it
C14_GetStep ==
  (pqs'.call # pqs.call /\ pqs'.call.op = "get" /\ pqs'.call.ret > 0) =>
    /\ pqs'.call.pkt = Head(pqs.pending).pkt
    /\ pqs'.call.serial = Head(pqs.pending).serial

\* C14: every packet stored in a packet queue carries a serial equal to the
\* queue's serial at the moment it was inserted, and get() reports that
\* stored serial with the packet; hence all packets enqueued between two
\* consecutive flushes carry the same serial.
C14_PacketsCarryInsertionSerial ==
  /\ [](C14_StoredSerials /\ C14_QueuedSerialIsCurrent)
  /\ [][C14_PutStep /\ C14_GetStep]_vars

\* C14 witness: the decoder has been handed a packet put after the first
\* flush, with serial 1, and the queue holds one more of that serial
C14_Witness ==
  /\ pqs.call.op = "get"
  /\ pqs.call.ret > 0
  /\ pqs.call.pkt.kind = "data"
  /\ pqs.call.serial = 1
  /\ pqs.q.serial = 1
  /\ Len(pqs.q.list) = 1
  /\ pqs.q.list[1].serial = 1

(***************************************************************************)
(* Specification SpecRender: the video frames of core/video_state.cpp from *)
(* video_thread / queue_picture through the frame queue to video_refresh   *)
(* and video_display on the main thread, with the reader's seek flush.     *)
(* Each decoded frame has an identity, its position in decode-emission     *)
(* order.  The allocation of the slot's picture is the subject of Spec.    *)
(***************************************************************************)
\* read_thread, seek: the video packet queue's flush() bumps its serial
RD_seek_flush ==
  /\ rd.queue_serial < MaxSeeks
  /\ rd' = [rd EXCEPT !.queue_serial = @ + 1]
  /\ UNCHANGED <<mainvars, fqs, cl, sy, ck, pqs, au, sk, so, vf, xs, adf, rl, ed, chp, prc, tp>>

\* video_thread -> get_video_frame: the decoder emits its next frame, decoded
\* from a packet of the queue's current serial, or drops it early
RD_get_video_frame ==
  /\ rd.pc_dec = "decode"
  /\ rd.next_id <= MaxFrames
  /\ \E got_picture \in BOOLEAN :
       rd' = [rd EXCEPT !.pkt_serial = rd.queue_serial,
                        !.next_id = IF got_picture THEN @ ELSE @ + 1,
                        !.pc_dec = IF got_picture THEN "qp" ELSE "decode"]
  /\ UNCHANGED <<mainvars, fqs, cl, sy, ck, pqs, au, sk, so, vf, xs, adf, rl, ed, chp, prc, tp>>

\* queue_picture: peek_writable() returns the slot at windex once the queue is
\* not full
RD_peek_writable ==
  /\ rd.pc_dec = "qp"
  /\ ~FQ_full(rd.fq)
  /\ rd' = [rd EXCEPT !.pc_dec = "fill"]
  /\ UNCHANGED <<mainvars, fqs, cl, sy, ck, pqs, au, sk, so, vf, xs, adf, rl, ed, chp, prc, tp>>

\* queue_picture, lines 1713-1723: if (vp->bmp) the slot takes the frame (pts,
\* serial) and push() commits it; else the frame is skipped
RD_queue_picture ==
  /\ rd.pc_dec = "fill"
  /\ \E bmp \in BOOLEAN :
       rd' = [rd EXCEPT
                !.fq = IF bmp
                       THEN FQ_push([@ EXCEPT !.queue[rd.fq.windex].serial =
                                                rd.pkt_serial])
                       ELSE @,
                !.ids[rd.fq.windex] = IF bmp THEN rd.next_id ELSE @,
                !.pushed = IF bmp THEN @ \cup {rd.next_id} ELSE @,
                !.next_id = @ + 1,
                !.pc_dec = "decode"]
  /\ UNCHANGED <<mainvars, fqs, cl, sy, ck, pqs, au, sk, so, vf, xs, adf, rl, ed, chp, prc, tp>>

\* toggle_pause(): stream_toggle_pause(), step = 0
RD_toggle_pause ==
  /\ rd.pc_main = "loop"
  /\ rd' = [rd EXCEPT !.paused = ~@, !.step = FALSE]
  /\ UNCHANGED <<mainvars, fqs, cl, sy, ck, pqs, au, sk, so, vf, xs, adf, rl, ed, chp, prc, tp>>

\* step_to_next_frame(): unpause if paused, step = 1
RD_step_to_next_frame ==
  /\ rd.pc_main = "loop"
  /\ ~rd.step
  /\ rd' = [rd EXCEPT !.paused = FALSE, !.step = TRUE]
  /\ UNCHANGED <<mainvars, fqs, cl, sy, ck, pqs, au, sk, so, vf, xs, adf, rl, ed, chp, prc, tp>>

\* SDL_WINDOWEVENT_EXPOSED and the like: force_refresh = 1
RD_window_exposed ==
  /\ rd.pc_main = "loop"
  /\ ~rd.force_refresh
  /\ rd' = [rd EXCEPT !.force_refresh = TRUE]
  /\ UNCHANGED <<mainvars, fqs, cl, sy, ck, pqs, au, sk, so, vf, xs, adf, rl, ed, chp, prc, tp>>

\* refresh_loop_wait_event: video_refresh is called
RD_refresh_start ==
  /\ rd.pc_main = "loop"
  /\ ~rd.paused \/ rd.force_refresh
  /\ rd' = [rd EXCEPT !.pc_main = "vr_retry", !.took = FALSE]
  /\ UNCHANGED <<mainvars, fqs, cl, sy, ck, pqs, au, sk, so, vf, xs, adf, rl, ed, chp, prc, tp>>

\* video_refresh, lines 508-522: nothing queued -> display; the head frame is
\* of a stale serial -> next() and retry
RD_retry ==
  /\ rd.pc_main = "vr_retry"
  /\ rd' = IF FQ_nb_remaining(rd.fq) = 0
           THEN [rd EXCEPT !.pc_main = "vr_display"]
           ELSE IF FQ_peek(rd.fq).serial # rd.queue_serial
           THEN [rd EXCEPT !.fq = FQ_next(@)]
           ELSE [rd EXCEPT !.pc_main = "vr_sched"]
  /\ UNCHANGED <<mainvars, fqs, cl, sy, ck, pqs, au, sk, so, vf, xs, adf, rl, ed, chp, prc, tp>>

\* video_refresh that shows the frame without taking it from the queue
RD_sched_no_next ==
  /\ rd.pc_main = "vr_sched"
  /\ \E due \in BOOLEAN, drop_late \in BOOLEAN :
       rd' = IF rd.paused \/ ~due
             THEN [rd EXCEPT !.pc_main = "vr_display"]
             ELSE IF FQ_nb_remaining(rd.fq) > 1 /\ ~rd.step /\ drop_late
             THEN [rd EXCEPT !.fq = FQ_next(@), !.pc_main = "vr_retry"]
             ELSE [rd EXCEPT !.pc_main = "vr_display",
                             !.force_refresh = TRUE,
                             !.took = TRUE,
                             !.paused = IF rd.step THEN TRUE ELSE @]
  /\ UNCHANGED <<mainvars, fqs, cl, sy, ck, pqs, au, sk, so, vf, xs, adf, rl, ed, chp, prc, tp>>

\* video_refresh, lines 527-603: paused or not yet due -> display; the frame
\* is late and another one is queued -> next() and retry; else next(),
\* force_refresh = 1 and the pause that ends a step.  The comparison of the
\* system time with frame_timer is an input (due, drop_late).
RD_sched ==
  /\ rd.pc_main = "vr_sched"
  /\ \E due \in BOOLEAN, drop_late \in BOOLEAN :
       rd' = IF rd.paused \/ ~due
             THEN [rd EXCEPT !.pc_main = "vr_display"]
             ELSE IF FQ_nb_remaining(rd.fq) > 1 /\ ~rd.step /\ drop_late
             THEN [rd EXCEPT !.fq = FQ_next(@), !.pc_main = "vr_retry"]
             ELSE [rd EXCEPT !.fq = FQ_next(@),
                             !.pc_main = "vr_display",
                             !.force_refresh = TRUE,
                             !.took = TRUE,
                             !.paused = IF rd.step THEN TRUE ELSE @]
  /\ UNCHANGED <<mainvars, fqs, cl, sy, ck, pqs, au, sk, so, vf, xs, adf, rl, ed, chp, prc, tp>>

\* video_refresh, lines 604-612, and video_image_display: when a refresh is
\* forced and a frame has been shown, the frame at peek_last() is displayed;
\* force_refresh = 0
RD_display ==
  /\ rd.pc_main = "vr_display"
  /\ rd' = IF rd.force_refresh /\ FQ_rindexShown(rd.fq)
           THEN [rd EXCEPT
                   !.presented = IF rd.took
                                 THEN Append(@, rd.ids[rd.fq.rindex]) ELSE @,
                   !.last_displayed = rd.ids[rd.fq.rindex],
                   !.force_refresh = FALSE,
                   !.pc_main = "loop"]
           ELSE [rd EXCEPT !.force_refresh = FALSE, !.pc_main = "loop"]
  /\ UNCHANGED <<mainvars, fqs, cl, sy, ck, pqs, au, sk, so, vf, xs, adf, rl, ed, chp, prc, tp>>

InitRender ==
  /\ MainVarsInit
  /\ fqs = NotRunning
  /\ cl = NotRunning
  /\ sy = NotRunning
  /\ ck = NotRunning
  /\ pqs = NotRunning
  /\ rd = RenderInit
  /\ au = NotRunning
  /\ sk = NotRunning
  /\ so = NotRunning
  /\ vf = NotRunning
  /\ xs = NotRunning
  /\ adf = NotRunning
  /\ rl = NotRunning
  /\ ed = NotRunning
  /\ chp = NotRunning
  /\ prc = NotRunning
  /\ tp = NotRunning

NextRender ==
  \/ RD_seek_flush \/ RD_get_video_frame \/ RD_peek_writable
  \/ RD_queue_picture
  \/ RD_toggle_pause \/ RD_step_to_next_frame \/ RD_window_exposed
  \/ RD_refresh_start \/ RD_retry \/ RD_sched \/ RD_display

SpecRender == InitRender /\ [][NextRender]_vars

\* video_display() never goes back to an earlier frame
C15_DisplayStep == rd'.last_displayed >= rd.last_displayed

C15_PresentedIncreasing ==
  /\ \A i \in 1..Len(rd.presented) : rd.presented[i] \in rd.pushed
  /\ \A i, j \in 1..Len(rd.presented) :
       i < j => rd.presented[i] < rd.presented[j]
  /\ rd.last_displayed # 0 => rd.last_displayed \in rd.pushed
  /\ rd.presented # <<>> =>
       rd.presented[Len(rd.presented)] <= rd.last_displayed

\* C15: within one stream, the sequence of frames presented by the render
\* thread is an order-preserving subsequence of the sequence of frames pushed
\* by the decoder thread: frames are never presented out of decode-emission
\* order and no frame is presented twice as a new frame.
C15_PresentedInDecodeOrder ==
  [](C15_PresentedIncreasing) /\ [][C15_DisplayStep]_vars

\* C15 witness: of the frames 1..4 pushed, frame 2 was dropped late and frames
\* 1, 3 and 4 were presented, frame 4 from the slot frame 1 had occupied
C15_Witness ==
  /\ rd.pushed = {1, 2, 3, 4}
  /\ rd.presented = <<1, 3, 4>>

(***************************************************************************)
(* Specification SpecAudio: sdl_audio_callback / audio_decode_frame on the *)
(* audio device's thread against audio_thread, with pause, the reader's    *)
(* seek flush and the close of the audio stream component.                 *)
(***************************************************************************)
\* SDL_CondSignal on the audio frame queue's condition
AU_signalled(a) ==
  [a EXCEPT !.pc_cb = IF @ = "pr_wait" THEN "peek_readable" ELSE @,
            !.pc_dec = IF @ = "pw_wait" THEN "peek_writable" ELSE @]

\* sdl_audio_callback: audio_decode_frame() returned audio_size; a negative
\* size makes the callback write silence, else it copies the frame's data
AU_return(a, audio_size) ==
  [a EXCEPT !.out = IF audio_size < 0 THEN "silence" ELSE "data",
            !.pc_cb = "idle"]

\* the audio device asks for data: sdl_audio_callback needs a new buffer (one
\* round of its loop while len > 0)
AU_callback ==
  /\ au.pc_cb = "idle"
  /\ au' = [au EXCEPT !.pc_cb = "adf"]
  /\ UNCHANGED <<mainvars, fqs, cl, sy, ck, pqs, rd, sk, so, vf, xs, adf, rl, ed, chp, prc, tp>>

\* audio_decode_frame, entry: if (paused_) return -1; video_state.cpp also
\* returns -1 when the audio stream is not opened
AU_audio_decode_frame ==
  /\ au.pc_cb = "adf"
  /\ au' = IF au.paused
           THEN AU_return([au EXCEPT !.was_paused = TRUE,
                                     !.underrun = FALSE], -1)
           ELSE [au EXCEPT !.was_paused = FALSE, !.underrun = FALSE,
                           !.pc_cb = IF au.build = "core_WIN32"
                                     THEN "poll" ELSE "peek_readable"]
  /\ UNCHANGED <<mainvars, fqs, cl, sy, ck, pqs, rd, sk, so, vf, xs, adf, rl, ed, chp, prc, tp>>

\* audio_decode_frame under _WIN32: while the queue is empty, return -1 once
\* half a hardware buffer of time has passed, else sleep 1 ms
AU_poll ==
  /\ au.pc_cb = "poll"
  /\ \E timed_out \in BOOLEAN :
       au' = IF FQ_nb_remaining(au.fq) > 0
             THEN [au EXCEPT !.pc_cb = "peek_readable"]
             ELSE IF timed_out
             THEN AU_return([au EXCEPT !.underrun = TRUE], -1)
             ELSE [au EXCEPT !.underrun = TRUE]
  /\ UNCHANGED <<mainvars, fqs, cl, sy, ck, pqs, rd, sk, so, vf, xs, adf, rl, ed, chp, prc, tp>>

\* audio_decode_frame: peek_readable() waits while the queue is empty and the
\* packet queue is not aborted, and returns NULL once it is aborted
AU_peek_readable ==
  /\ au.pc_cb = "peek_readable"
  /\ au' = IF FQ_nb_remaining(au.fq) = 0 /\ ~au.abort_request
           THEN [au EXCEPT !.pc_cb = "pr_wait", !.underrun = TRUE]
           ELSE IF au.abort_request
           THEN AU_return(au, -1)
           ELSE [au EXCEPT !.pc_cb = "next"]
  /\ UNCHANGED <<mainvars, fqs, cl, sy, ck, pqs, rd, sk, so, vf, xs, adf, rl, ed, chp, prc, tp>>

\* audio_decode_frame: next(), then the loop while the frame taken is of a
\* stale serial; a frame of the current serial is the callback's data
AU_next ==
  /\ au.pc_cb = "next"
  /\ LET af == FQ_peek(au.fq)
         a1 == AU_signalled([au EXCEPT !.fq = FQ_next(@)])
     IN  au' = IF af.serial # au.queue_serial
               THEN [a1 EXCEPT !.pc_cb = IF au.build = "core_WIN32"
                                         THEN "poll" ELSE "peek_readable"]
               ELSE AU_return(a1, 1)
  /\ UNCHANGED <<mainvars, fqs, cl, sy, ck, pqs, rd, sk, so, vf, xs, adf, rl, ed, chp, prc, tp>>

\* audio_thread -> decodeFrame: the decoder has a packet to decode, or waits
\* in the packet queue's get() for the reader to deliver one; it ends when
\* the packet queue is aborted
AU_decodeFrame ==
  /\ au.pc_dec \in {"decode", "get_wait"}
  /\ \E has_packet \in BOOLEAN :
       au' = IF au.abort_request THEN [au EXCEPT !.pc_dec = "done"]
             ELSE IF has_packet
             THEN [au EXCEPT !.pc_dec = "peek_writable",
                             !.pkt_serial = au.queue_serial]
             ELSE [au EXCEPT !.pc_dec = "get_wait"]
  /\ au' # au
  /\ UNCHANGED <<mainvars, fqs, cl, sy, ck, pqs, rd, sk, so, vf, xs, adf, rl, ed, chp, prc, tp>>

\* audio_thread: peek_writable() waits while the queue is full, NULL on abort
AU_peek_writable ==
  /\ au.pc_dec = "peek_writable"
  /\ au' = IF au.abort_request THEN [au EXCEPT !.pc_dec = "done"]
           ELSE IF FQ_full(au.fq) THEN [au EXCEPT !.pc_dec = "pw_wait"]
           ELSE [au EXCEPT !.pc_dec = "fill"]
  /\ UNCHANGED <<mainvars, fqs, cl, sy, ck, pqs, rd, sk, so, vf, xs, adf, rl, ed, chp, prc, tp>>

\* audio_thread: the slot takes the frame (serial of its packet) and push()
AU_push ==
  /\ au.pc_dec = "fill"
  /\ au' = AU_signalled(
             [au EXCEPT !.fq = FQ_push([@ EXCEPT !.queue[au.fq.windex].serial =
                                                   au.pkt_serial]),
                        !.pc_dec = "decode"])
  /\ UNCHANGED <<mainvars, fqs, cl, sy, ck, pqs, rd, sk, so, vf, xs, adf, rl, ed, chp, prc, tp>>

\* toggle_pause() on the main thread
AU_toggle_pause ==
  /\ ~au.abort_request
  /\ au' = [au EXCEPT !.paused = ~@]
  /\ UNCHANGED <<mainvars, fqs, cl, sy, ck, pqs, rd, sk, so, vf, xs, adf, rl, ed, chp, prc, tp>>

\* read_thread, seek: the audio packet queue's flush() bumps its serial
AU_seek_flush ==
  /\ au.queue_serial < MaxSeeks
  /\ au' = [au EXCEPT !.queue_serial = @ + 1]
  /\ UNCHANGED <<mainvars, fqs, cl, sy, ck, pqs, rd, sk, so, vf, xs, adf, rl, ed, chp, prc, tp>>

\* stream_component_close, audio: auddec->abort(frame_queue) aborts the packet
\* queue and signals the frame queue's condition
AU_close_abort ==
  /\ ~au.abort_request
  /\ au' = AU_signalled([au EXCEPT !.abort_request = TRUE])
  /\ UNCHANGED <<mainvars, fqs, cl, sy, ck, pqs, rd, sk, so, vf, xs, adf, rl, ed, chp, prc, tp>>

InitAudio ==
  /\ MainVarsInit
  /\ fqs = NotRunning
  /\ cl = NotRunning
  /\ sy = NotRunning
  /\ ck = NotRunning
  /\ pqs = NotRunning
  /\ rd = NotRunning
  /\ \E build \in {"core", "core_WIN32", "video_state"} : au = AudioInit(build)
  /\ sk = NotRunning
  /\ so = NotRunning
  /\ vf = NotRunning
  /\ xs = NotRunning
  /\ adf = NotRunning
  /\ rl = NotRunning
  /\ ed = NotRunning
  /\ chp = NotRunning
  /\ prc = NotRunning
  /\ tp = NotRunning

NextAudio ==
  \/ AU_callback \/ AU_audio_decode_frame \/ AU_poll \/ AU_peek_readable
  \/ AU_next
  \/ AU_decodeFrame \/ AU_peek_writable \/ AU_push
  \/ AU_toggle_pause \/ AU_seek_flush \/ AU_close_abort

SpecAudio == InitAudio /\ [][NextAudio]_vars

\* C17: the audio callback always answers without unbounded blocking: when
\* the audio frame queue is empty (underrun) or playback is paused, it fills
\* the device buffer with silence and returns, for every state of the decoder
\* thread (here: the callback never waits for a frame while the decoder itself
\* waits for a packet, and a call that found the player paused or the queue
\* empty wrote silence).
C17_CallbackAnswersWithSilence ==
  /\ ~(au.pc_cb = "pr_wait" /\ au.pc_dec = "get_wait")
  /\ (au.pc_cb = "idle" /\ (au.was_paused \/ au.underrun)) =>
       au.out = "silence"

(***************************************************************************)
(* SpecSeek: how read_thread handles a seek request, with the three packet *)
(* queues, the main thread (event loop and video_refresh, i.e. the render  *)
(* thread) and the decoders draining their queues.  frame_timer is a time  *)
(* in 0..MaxFrameTimer.                                                    *)
(***************************************************************************)
\* the packet av_read_frame() delivers
DataPacket == [kind |-> "data", size |-> 1, duration |-> 1]

\* read_thread, seek succeeded: flush() and put(flush_pkt()) on the packet
\* queue of stream kind k that forgets the flush()
SK_seek_flush_put_only(a, k) ==
  IF a.open[k]
  THEN [a EXCEPT !.q[k] = PacketQueue_put(@, flush_pkt).q]
  ELSE a

\* read_thread, seek succeeded: flush() and put(flush_pkt()) on the packet
\* queue of stream kind k if that stream is open; video_state.cpp has only the
\* video and the audio stream
SK_seek_flush(a, k) ==
  IF a.open[k] /\ (a.build = "core" \/ k # "subtitle")
  THEN [a EXCEPT !.q[k] = PacketQueue_put(PacketQueue_flush(@), flush_pkt).q]
  ELSE a

\* stream_toggle_pause() run by thread: leaving pause it adds the time spent
\* paused to frame_timer; it flips paused_
SK_stream_toggle_pause(a, thread, t) ==
  [a EXCEPT !.frame_timer = IF a.paused THEN t ELSE @,
            !.frame_timer_writer = IF a.paused THEN thread ELSE @,
            !.paused = ~a.paused]

\* step_to_next_frame() run by thread: unpauses if paused, then step = 1
SK_step_to_next_frame(a, thread, t) ==
  [(IF a.paused THEN SK_stream_toggle_pause(a, thread, t) ELSE a)
     EXCEPT !.step = TRUE]

\* stream_seek() from the event loop: records the request unless one is
\* pending
SK_stream_seek ==
  /\ ~sk.seek_req
  /\ sk.seeks < MaxSeeks
  /\ sk' = [sk EXCEPT !.seek_req = TRUE, !.seeks = @ + 1]
  /\ UNCHANGED <<mainvars, fqs, cl, sy, ck, pqs, rd, au, so, vf, xs, adf, rl, ed, chp, prc, tp>>

\* toggle_pause() from the event loop
SK_toggle_pause ==
  /\ \E t \in sk.frame_timer..MaxFrameTimer :
       sk' = [SK_stream_toggle_pause(sk, "render", t) EXCEPT !.step = FALSE]
  /\ UNCHANGED <<mainvars, fqs, cl, sy, ck, pqs, rd, au, so, vf, xs, adf, rl, ed, chp, prc, tp>>

\* the event loop on a window exposed / resized event: force_refresh = 1
SK_window_exposed ==
  /\ ~sk.force_refresh
  /\ sk' = [sk EXCEPT !.force_refresh = TRUE,
                      !.force_refresh_writer = "render"]
  /\ UNCHANGED <<mainvars, fqs, cl, sy, ck, pqs, rd, au, so, vf, xs, adf, rl, ed, chp, prc, tp>>

\* video_refresh() from the event loop while not paused or a refresh is
\* forced: unless paused it advances frame_timer to the frame shown and, when
\* stepping, pauses again; it ends with force_refresh = 0
SK_video_refresh ==
  /\ sk.open["video"]
  /\ ~sk.paused \/ sk.force_refresh
  /\ \E t \in sk.frame_timer..MaxFrameTimer :
       LET timed == IF sk.paused THEN sk
                    ELSE [sk EXCEPT !.frame_timer = t,
                                    !.frame_timer_writer = "render"]
           after == IF ~sk.paused /\ sk.step
                    THEN SK_stream_toggle_pause(timed, "render", t)
                    ELSE timed
       IN sk' = [after EXCEPT !.force_refresh = FALSE,
                              !.force_refresh_writer = "render"]
  /\ UNCHANGED <<mainvars, fqs, cl, sy, ck, pqs, rd, au, so, vf, xs, adf, rl, ed, chp, prc, tp>>

\* read_thread finds seek_req set and calls avformat_seek_file(), which
\* succeeds or fails
SK_read_seek ==
  /\ sk.pc_rd = "loop"
  /\ sk.seek_req
  /\ \E ok \in BOOLEAN :
       sk' = [sk EXCEPT !.seek_ok = ok,
                        !.before = [k \in StreamKinds |-> sk.q[k].serial],
                        !.pc_rd = IF ok THEN "seek_flush" ELSE "seek_end"]
  /\ UNCHANGED <<mainvars, fqs, cl, sy, ck, pqs, rd, au, so, vf, xs, adf, rl, ed, chp, prc, tp>>

\* read_thread, the seek succeeded: the audio, subtitle and video queues are
\* flushed in this order
SK_read_seek_flush ==
  /\ sk.pc_rd = "seek_flush"
  /\ sk' = [SK_seek_flush(SK_seek_flush(SK_seek_flush(sk, "audio"),
                                        "subtitle"), "video")
              EXCEPT !.pc_rd = "seek_end"]
  /\ UNCHANGED <<mainvars, fqs, cl, sy, ck, pqs, rd, au, so, vf, xs, adf, rl, ed, chp, prc, tp>>

\* read_thread ends the seek: seek_req = 0, queue_attachments_req = 1,
\* eof_ = false and, if paused, step_to_next_frame()
SK_read_seek_end ==
  /\ sk.pc_rd = "seek_end"
  /\ \E t \in sk.frame_timer..MaxFrameTimer :
       sk' = [(IF sk.paused THEN SK_step_to_next_frame(sk, "reader", t) ELSE sk)
                EXCEPT !.seek_req = FALSE,
                       !.queue_attachments_req = TRUE,
                       !.eof = FALSE,
                       !.pc_rd = "attach"]
  /\ UNCHANGED <<mainvars, fqs, cl, sy, ck, pqs, rd, au, so, vf, xs, adf, rl, ed, chp, prc, tp>>

\* read_thread with no seek pending goes on to the attachments
SK_read_no_seek ==
  /\ sk.pc_rd = "loop"
  /\ ~sk.seek_req
  /\ sk' = [sk EXCEPT !.pc_rd = "attach"]
  /\ UNCHANGED <<mainvars, fqs, cl, sy, ck, pqs, rd, au, so, vf, xs, adf, rl, ed, chp, prc, tp>>

\* read_thread: if queue_attachments_req, a copy of the attached picture of
\* the video stream (if it has one) is queued with a null packet after it,
\* and the flag is cleared
SK_read_attachments ==
  /\ sk.pc_rd = "attach"
  /\ sk' = [sk EXCEPT
              !.q["video"] =
                 IF sk.queue_attachments_req /\ sk.open["video"]
                    /\ sk.attached_pic
                 THEN PacketQueue_put_nullpacket(
                        PacketQueue_put(@, DataPacket).q).q
                 ELSE @,
              !.queue_attachments_req = FALSE,
              !.pc_rd = "read"]
  /\ UNCHANGED <<mainvars, fqs, cl, sy, ck, pqs, rd, au, so, vf, xs, adf, rl, ed, chp, prc, tp>>

\* read_thread: "if the queue are full, no need to read more", with MaxQueued
\* packets in the three queues together as the limit
SK_queues_full(a) ==
  PacketQueue_nb_packets(a.q["audio"]) + PacketQueue_nb_packets(a.q["video"])
    + PacketQueue_nb_packets(a.q["subtitle"]) >= MaxQueued

\* the read step without the !eof_ test: every end of file puts null packets
SK_read_packet_unguarded ==
  /\ sk.pc_rd = "read"
  /\ IF SK_queues_full(sk)
     THEN sk' = [sk EXCEPT !.pc_rd = "loop"]
     ELSE \/ \E k \in StreamKinds :
               /\ sk.open[k]
               /\ sk.build = "core" \/ k # "subtitle"
               /\ ~(k = "video" /\ sk.attached_pic)
               /\ sk' = [sk EXCEPT !.q[k] = PacketQueue_put(@, DataPacket).q,
                                   !.eof = FALSE,
                                   !.pc_rd = "loop"]
          \/ sk' = [sk EXCEPT !.eof = FALSE, !.pc_rd = "loop"]
          \/ sk' = [sk EXCEPT !.pc_rd = "loop"]
          \/ sk' = [sk EXCEPT
                      !.q = [k \in StreamKinds |->
                               IF sk.open[k]
                               THEN PacketQueue_put_nullpacket(sk.q[k]).q
                               ELSE sk.q[k]],
                      !.eof = TRUE,
                      !.pc_rd = "loop"]
  /\ UNCHANGED <<mainvars, fqs, cl, sy, ck, pqs, rd, au, so, vf, xs, adf, rl, ed, chp, prc, tp>>

\* read_thread: with the queues full it waits and starts over; else
\* av_read_frame() gives a packet of an open stream, which is put on that
\* stream's queue, or a packet that is dropped (both clear eof_), or an error
\* that is not the end of file, or the end of file, where the first time each
\* open stream's queue gets a null packet and eof_ is set
SK_read_packet ==
  /\ sk.pc_rd = "read"
  /\ IF SK_queues_full(sk)
     THEN sk' = [sk EXCEPT !.pc_rd = "loop"]
     ELSE \/ \E k \in StreamKinds :
               /\ sk.open[k]
               /\ sk.build = "core" \/ k # "subtitle"
               /\ ~(k = "video" /\ sk.attached_pic)
               /\ sk' = [sk EXCEPT !.q[k] = PacketQueue_put(@, DataPacket).q,
                                   !.eof = FALSE,
                                   !.pc_rd = "loop"]
          \/ sk' = [sk EXCEPT !.eof = FALSE, !.pc_rd = "loop"]
          \/ sk' = [sk EXCEPT !.pc_rd = "loop"]
          \/ sk' = [sk EXCEPT
                      !.q = [k \in StreamKinds |->
                               IF ~sk.eof /\ sk.open[k]
                               THEN PacketQueue_put_nullpacket(sk.q[k]).q
                               ELSE sk.q[k]],
                      !.eof = TRUE,
                      !.pc_rd = "loop"]
  /\ UNCHANGED <<mainvars, fqs, cl, sy, ck, pqs, rd, au, so, vf, xs, adf, rl, ed, chp, prc, tp>>

\* the decoder thread of stream kind k takes the packet at the head of its
\* queue
SK_decoder_get ==
  /\ \E k \in StreamKinds :
       /\ sk.open[k]
       /\ sk.q[k].list # <<>>
       /\ sk' = [sk EXCEPT !.q[k] = PacketQueue_get(@, TRUE).q]
  /\ UNCHANGED <<mainvars, fqs, cl, sy, ck, pqs, rd, au, so, vf, xs, adf, rl, ed, chp, prc, tp>>

\* read_thread gives up unless the video or the audio stream could be opened
InitSeek ==
  /\ MainVarsInit
  /\ fqs = NotRunning
  /\ cl = NotRunning
  /\ sy = NotRunning
  /\ ck = NotRunning
  /\ pqs = NotRunning
  /\ rd = NotRunning
  /\ au = NotRunning
  /\ \E build \in {"core", "video_state"} :
       \E open \in [StreamKinds -> BOOLEAN] :
         /\ (build = "video_state") => ~open["subtitle"]
         /\ open["video"] \/ open["audio"]
         /\ \E attached_pic \in BOOLEAN :
              /\ attached_pic =>
                   /\ build = "core"
                   /\ open["video"] /\ open["audio"] /\ ~open["subtitle"]
              /\ sk = SeekInit(build, open, attached_pic)
  /\ so = NotRunning
  /\ vf = NotRunning
  /\ xs = NotRunning
  /\ adf = NotRunning
  /\ rl = NotRunning
  /\ ed = NotRunning
  /\ chp = NotRunning
  /\ prc = NotRunning
  /\ tp = NotRunning

NextSeek ==
  \/ SK_stream_seek \/ SK_toggle_pause \/ SK_window_exposed
  \/ SK_video_refresh
  \/ SK_read_seek \/ SK_read_seek_flush \/ SK_read_seek_end
  \/ SK_read_no_seek \/ SK_read_attachments \/ SK_read_packet
  \/ SK_decoder_get

SpecSeek == InitSeek /\ [][NextSeek]_vars

\* the step in which read_thread finishes handling a seek request
SK_seek_processed == sk.pc_rd = "seek_end" /\ sk'.pc_rd = "attach"

\* C18: after the reader thread has processed a seek request, the serial of
\* each of the three packet queues (audio, video, subtitle) is strictly
\* greater than before the seek, queue_attachments_req is set and the pending
\* seek request is cleared.
C18_AllThreeSerialsGrow ==
  [][SK_seek_processed =>
       /\ \A k \in StreamKinds : sk'.q[k].serial > sk.before[k]
       /\ sk'.queue_attachments_req
       /\ ~sk'.seek_req]_vars

\* C18 (amended): after the reader thread has processed a seek request,
\* queue_attachments_req is set and the seek request is cleared; the serial of
\* the packet queue of every open stream is strictly greater than before the
\* seek if avformat_seek_file succeeded, and the queue of a stream that is not
\* open, and every queue after a failed seek, keeps the serial it had.
C18_OpenStreamsSerialsGrow ==
  [][SK_seek_processed =>
       /\ \A k \in StreamKinds :
            IF sk.seek_ok /\ sk.open[k]
            THEN sk'.q[k].serial > sk.before[k]
            ELSE sk'.q[k].serial = sk.before[k]
       /\ sk'.queue_attachments_req
       /\ ~sk'.seek_req]_vars

\* a successful seek has been processed with the three streams open: every
\* serial has grown, the flag is set, the request is cleared and each queue
\* holds the flush packet only
C18_Witness ==
  /\ sk.pc_rd = "attach"
  /\ sk.seeks = 1
  /\ sk.seek_ok
  /\ \A k \in StreamKinds :
       /\ sk.open[k]
       /\ sk.q[k].serial = sk.before[k] + 1
       /\ sk.q[k].list = <<[pkt |-> flush_pkt, serial |-> sk.q[k].serial]>>
  /\ sk.queue_attachments_req
  /\ ~sk.seek_req

\* C19: frame_timer and the force-refresh flag are written only by the render
\* thread: the reader thread and the decoder threads never modify them, the
\* reader's handling of a seek issued during pause included.
C19_OnlyRenderThreadWrites ==
  /\ sk.frame_timer_writer \in {"none", "render"}
  /\ sk.force_refresh_writer \in {"none", "render"}

\* the packets a step appends to the queue of stream kind k
C32_appended(k) ==
  LET old == sk.q[k].list
      new == sk'.q[k].list
  IN  IF Len(new) >= Len(old) /\ SubSeq(new, 1, Len(old)) = old
      THEN SubSeq(new, Len(old) + 1, Len(new))
      ELSE <<>>

\* how many null packets a step appends to the queue of stream kind k
C32_nulls_put(k) ==
  Cardinality({i \in DOMAIN C32_appended(k) :
                 C32_appended(k)[i].pkt = null_pkt})

\* a step in which read_thread has called av_read_frame()
C32_read_step ==
  sk.pc_rd = "read" /\ sk'.pc_rd = "loop" /\ ~SK_queues_full(sk)

C32_Step ==
  /\ (C32_read_step /\ \E k \in StreamKinds : C32_nulls_put(k) > 0) =>
       /\ ~sk.eof /\ sk'.eof
       /\ \A k \in StreamKinds :
            /\ C32_appended(k) = IF sk.open[k]
                                 THEN <<[pkt |-> null_pkt,
                                         serial |-> sk.q[k].serial]>>
                                 ELSE <<>>
            /\ sk'.q[k].abort_request = sk.q[k].abort_request
            /\ sk'.q[k].serial = sk.q[k].serial
  /\ (~sk.eof /\ sk'.eof) =>
       /\ C32_read_step
       /\ \A k \in StreamKinds : sk.open[k] => C32_nulls_put(k) = 1
  /\ sk.eof =>
       \A k \in StreamKinds : C32_nulls_put(k) = 0
  /\ (sk.eof /\ ~sk'.eof) => (C32_read_step \/ SK_seek_processed)

C32_WitnessAgain ==
  /\ sk.eof
  /\ Len(sk.q["audio"].list) = 2
  /\ \A i \in 1..2 : sk.q["audio"].list[i].pkt = null_pkt

\* the video stream is an attached picture: the decoder has taken the
\* picture, and its queue holds the null packet put after the picture and the
\* null packet of the end of the input
C32_WitnessAttachedPicture ==
  /\ sk.attached_pic
  /\ sk.eof
  /\ Len(sk.q["video"].list) = 2
  /\ \A i \in 1..2 : sk.q["video"].list[i].pkt = null_pkt

(***************************************************************************)
(* SpecOpen: read_thread opens the audio, the video and the subtitle       *)
(* stream component, gives up if neither audio nor video is open, else     *)
(* reads packets until an error or an abort, and pushes FF_QUIT_EVENT when *)
(* it ends with ret != 0.                                                  *)
(***************************************************************************)
\* the ways stream_component_open() fails before it touches the session:
\* stream index out of range, no codec context, codec parameters, no decoder
\* found, avcodec_open2, an option nobody consumed
OpenFailures ==
  {"invalid index", "no memory", "parameters", "no decoder", "codec open",
   "option not found"}

\* failures of the audio branch before audio_stream is set:
\* configure_audio_filters, audio_open
AudioFailures == {"audio filters", "audio open"}

\* what one call may end with: success, a failure above, or the decoder
\* thread that does not start
OpenOutcomes(k) ==
  {"ok", "thread start"} \cup (OpenFailures \ {"invalid index"})
    \cup (IF k = "audio" THEN AudioFailures ELSE {})

\* stream_component_open(st_index[k]) ending with outcome: a failure before
\* the switch on the codec type leaves the session as it was; after it the
\* stream index is recorded, and the decoder runs unless its thread failed to
\* start; opening the video stream asks for the attached pictures
stream_component_open(o, k, outcome) ==
  IF outcome \in OpenFailures \cup AudioFailures
  THEN [o EXCEPT !.result[k] = outcome]
  ELSE [o EXCEPT !.result[k] = outcome,
                 !.stream[k] = TRUE,
                 !.decoder[k] = outcome = "ok",
                 !.queue_attachments_req =
                    IF k = "video" /\ outcome = "ok" THEN TRUE ELSE @]

\* the outcomes possible for the index read_thread passes: an index of no
\* stream of the file is refused at once
SO_outcomes(k) ==
  IF so.st_index[k] = "invalid" THEN {"invalid index"} ELSE OpenOutcomes(k)

\* read_thread: if (st_index[AVMEDIA_TYPE_AUDIO] >= 0) stream_component_open
SO_open_audio ==
  /\ so.pc = "open_audio"
  /\ IF so.st_index["audio"] = "none"
     THEN so' = [so EXCEPT !.pc = "open_video"]
     ELSE \E outcome \in SO_outcomes("audio") :
            so' = [stream_component_open(so, "audio", outcome)
                     EXCEPT !.pc = "open_video"]
  /\ UNCHANGED <<mainvars, fqs, cl, sy, ck, pqs, rd, au, sk, vf, xs, adf, rl, ed, chp, prc, tp>>

\* read_thread: ret = -1; if (st_index[AVMEDIA_TYPE_VIDEO] >= 0) ret =
\* stream_component_open
SO_open_video ==
  /\ so.pc = "open_video"
  /\ IF so.st_index["video"] = "none"
     THEN so' = [so EXCEPT !.pc = "open_subtitle", !.ret = -1]
     ELSE \E outcome \in SO_outcomes("video") :
            so' = [stream_component_open(so, "video", outcome)
                     EXCEPT !.pc = "open_subtitle",
                            !.ret = IF outcome = "ok" THEN 0 ELSE -1]
  /\ UNCHANGED <<mainvars, fqs, cl, sy, ck, pqs, rd, au, sk, vf, xs, adf, rl, ed, chp, prc, tp>>

\* read_thread: if (st_index[AVMEDIA_TYPE_SUBTITLE] >= 0) stream_component_open
SO_open_subtitle ==
  /\ so.pc = "open_subtitle"
  /\ IF so.st_index["subtitle"] = "none"
     THEN so' = [so EXCEPT !.pc = "check"]
     ELSE \E outcome \in SO_outcomes("subtitle") :
            so' = [stream_component_open(so, "subtitle", outcome)
                     EXCEPT !.pc = "check"]
  /\ UNCHANGED <<mainvars, fqs, cl, sy, ck, pqs, rd, au, sk, vf, xs, adf, rl, ed, chp, prc, tp>>

\* the test read_thread makes after the three calls, with || for &&
SO_nothing_to_play_either(o) == ~o.stream["video"] \/ ~o.stream["audio"]

\* read_thread: video_stream < 0 && audio_stream < 0
SO_nothing_to_play(o) == ~o.stream["video"] /\ ~o.stream["audio"]

\* read_thread: "Failed to open file": ret = -1, goto fail; else on to the
\* read loop
SO_check ==
  /\ so.pc = "check"
  /\ so' = IF SO_nothing_to_play(so)
           THEN [so EXCEPT !.ret = -1, !.pc = "fail"]
           ELSE [so EXCEPT !.pc = "loop"]
  /\ UNCHANGED <<mainvars, fqs, cl, sy, ck, pqs, rd, au, sk, vf, xs, adf, rl, ed, chp, prc, tp>>

\* read_thread, one round of the read loop: it goes on, or abort_request
\* ends it (ret = 0), or it ends on a failure of its own (copying the
\* attached picture, an I/O error with autoexit, ret < 0)
SO_loop ==
  /\ so.pc = "loop"
  /\ \/ so' = [so EXCEPT !.queue_attachments_req = FALSE]
     \/ so' = [so EXCEPT !.ret = 0, !.pc = "fail"]
     \/ so' = [so EXCEPT !.ret = -1, !.other_failure = TRUE, !.pc = "fail"]
  /\ UNCHANGED <<mainvars, fqs, cl, sy, ck, pqs, rd, au, sk, vf, xs, adf, rl, ed, chp, prc, tp>>

\* read_thread at fail: if (ret != 0) push FF_QUIT_EVENT
SO_fail ==
  /\ so.pc = "fail"
  /\ so' = [so EXCEPT !.quit_event = so.ret # 0, !.pc = "done"]
  /\ UNCHANGED <<mainvars, fqs, cl, sy, ck, pqs, rd, au, sk, vf, xs, adf, rl, ed, chp, prc, tp>>

InitOpen ==
  /\ MainVarsInit
  /\ fqs = NotRunning
  /\ cl = NotRunning
  /\ sy = NotRunning
  /\ ck = NotRunning
  /\ pqs = NotRunning
  /\ rd = NotRunning
  /\ au = NotRunning
  /\ sk = NotRunning
  /\ vf = NotRunning
  /\ xs = NotRunning
  /\ adf = NotRunning
  /\ rl = NotRunning
  /\ ed = NotRunning
  /\ chp = NotRunning
  /\ prc = NotRunning
  /\ tp = NotRunning
  /\ \E st_index \in [StreamKinds -> {"none", "valid", "invalid"}] :
       so = OpenInit(st_index)

NextOpen ==
  \/ SO_open_audio \/ SO_open_video \/ SO_open_subtitle
  \/ SO_check \/ SO_loop \/ SO_fail

SpecOpen == InitOpen /\ [][NextOpen]_vars

\* C21 (the component): a stream_component_open that failed on the index, the
\* decoder lookup, the codec or an option left its stream closed, without a
\* decoder
C21_FailedComponentClosed ==
  \A k \in StreamKinds :
    so.result[k] \in OpenFailures =>
      ~so.stream[k] /\ ~so.decoder[k]

\* C21 (the session): the reader goes from its test to the read loop exactly
\* when the audio or the video stream is open, whatever else failed
C21_ContinuesStep ==
  so.pc = "check" =>
    (so'.pc = "loop") = (so.stream["audio"] \/ so.stream["video"])

\* C21 (the quit event): it is pushed only if neither an audio nor a video
\* stream is open or the read loop failed on its own
C21_QuitOnlyWithoutStreams ==
  so.quit_event =>
    \/ ~so.stream["audio"] /\ ~so.stream["video"]
    \/ so.other_failure

\* C21: when opening one stream component fails (invalid index, no decoder,
\* codec open or option error) that component stays closed and playback goes
\* on with the remaining streams; the reader pushes the quit event only when
\* neither an audio nor a video stream could be opened or on another
\* unrecoverable failure, never because one of several streams failed.
C21_OneFailedStreamDoesNotQuit ==
  /\ [](C21_FailedComponentClosed /\ C21_QuitOnlyWithoutStreams)
  /\ [][C21_ContinuesStep]_vars

\* the video component failed in avcodec_open2 and the subtitle index was
\* invalid, the audio stream is open and the reader is in its read loop
C21_Witness ==
  /\ so.result["video"] = "codec open"
  /\ so.result["subtitle"] = "invalid index"
  /\ so.result["audio"] = "ok"
  /\ so.stream = [k \in StreamKinds |-> k = "audio"]
  /\ so.pc = "loop"
  /\ ~so.quit_event

(***************************************************************************)
(* Specification SpecRefresh: the frame timing of video_refresh in         *)
(* core/video_state.cpp for a session with an audio and a video stream:    *)
(* frame_timer against the system time, the target delay, the late-frame   *)
(* drop and the pause / step handlers of the main thread, with the video   *)
(* decoder queueing pictures and the reader flushing on a seek.  Times are *)
(* in ms; the audio clock runs with the system time.  A queued frame is a  *)
(* record [serial, allocated, pts, duration].                              *)
(***************************************************************************)
\* vp_duration without the serial comparison of line 1282
vp_duration_across_serials(v, vp, nextvp) ==
  LET duration == dsub(nextvp.pts, vp.pts)
  IN  IF duration.nan \/ duration.v <= 0
         \/ duration.v > v.max_frame_duration
      THEN vp.duration
      ELSE duration.v

\* vp_duration(vp, nextvp): the pts distance when it is usable, else the
\* frame's own duration; 0 across a serial change
vp_duration(v, vp, nextvp) ==
  IF vp.serial = nextvp.serial
  THEN LET duration == dsub(nextvp.pts, vp.pts)
       IN  IF duration.nan \/ duration.v <= 0
              \/ duration.v > v.max_frame_duration
           THEN vp.duration
           ELSE duration.v
  ELSE 0

\* what get_master_sync_type() and the clocks' GetClock() see now
VF_engine(v) ==
  [av_sync_type |-> v.av_sync_type, video_st |-> TRUE, audio_st |-> TRUE,
   vclock |-> GetClock(v.vidclk, v.queue_serial, v.now),
   aclock |-> Dbl(v.now), sclock |-> NaN,
   max_frame_duration |-> v.max_frame_duration]

\* lines 541-543 with a reset that does not look at delay
VF_frame_timer_due_any_delay(frame_timer, delay, time) ==
  IF time - (frame_timer + delay) > AV_SYNC_THRESHOLD_MAX
  THEN time
  ELSE frame_timer + delay

\* lines 541-543 without the reset
VF_frame_timer_due_no_reset(frame_timer, delay, time) ==
  frame_timer + delay

\* video_refresh, lines 541-543: frame_timer += delay; if (delay > 0 &&
\* time - frame_timer > AV_SYNC_THRESHOLD_MAX) frame_timer = time
VF_frame_timer_due(frame_timer, delay, time) ==
  IF delay > 0 /\ time - (frame_timer + delay) > AV_SYNC_THRESHOLD_MAX
  THEN time
  ELSE frame_timer + delay

\* the drop test of lines 554-556 that forgets single-stepping
VF_drop_late_while_stepping(v, duration) ==
  /\ v.framedrop > 0
     \/ (v.framedrop # 0 /\ get_master_sync_type(VF_engine(v)) # "VIDEO")
  /\ v.time > v.frame_timer + duration

\* the drop test of lines 554-556 with time >= frame_timer + duration
VF_drop_late_inclusive(v, duration) ==
  /\ ~v.step
  /\ v.framedrop > 0
     \/ (v.framedrop # 0 /\ get_master_sync_type(VF_engine(v)) # "VIDEO")
  /\ v.time >= v.frame_timer + duration

\* video_refresh, lines 554-556: !step && (framedrop > 0 || (framedrop &&
\* get_master_sync_type() != AV_SYNC_VIDEO_MASTER)) && time > frame_timer +
\* duration
VF_drop_late(v, duration) ==
  /\ ~v.step
  /\ v.framedrop > 0
     \/ (v.framedrop # 0 /\ get_master_sync_type(VF_engine(v)) # "VIDEO")
  /\ v.time > v.frame_timer + duration

\* stream_toggle_pause(), av_read_pause() being supported: leaving pause it
\* moves frame_timer by the time since the video clock was last updated and
\* re-pins that clock; it flips paused_
VF_stream_toggle_pause(v) ==
  LET c1 == IF v.paused
            THEN SyncSerialClock(SetPaused(v.vidclk, FALSE),
                                 v.queue_serial, v.now)
            ELSE v.vidclk
  IN  [v EXCEPT !.frame_timer =
                   IF v.paused THEN @ + (v.now - v.vidclk.last_updated) ELSE @,
                !.vidclk = SetPaused(c1, ~v.paused),
                !.paused = ~v.paused]

\* av_gettime_relative() advances between two calls of video_refresh: a
\* short wait or a stall
VF_tick ==
  /\ vf.pc = "loop"
  /\ \E dt \in {50, 150} :
       /\ vf.now + dt <= 50 * MaxNow
       /\ vf' = [vf EXCEPT !.now = @ + dt]
  /\ UNCHANGED <<mainvars, fqs, cl, sy, ck, pqs, rd, au, sk, so, xs, adf, rl, ed, chp, prc, tp>>

\* read_thread, seek: the video packet queue's flush() bumps its serial
VF_seek_flush ==
  /\ vf.queue_serial < MaxSeeks
  /\ vf' = [vf EXCEPT !.queue_serial = @ + 1]
  /\ UNCHANGED <<mainvars, fqs, cl, sy, ck, pqs, rd, au, sk, so, xs, adf, rl, ed, chp, prc, tp>>

\* video_thread -> queue_picture: the next decoded frame enters the frame
\* queue under the queue's serial
VF_queue_picture ==
  /\ ~FQ_full(vf.fq)
  /\ vf.nframes < MaxPictures
  /\ vf' = [vf EXCEPT
              !.fq = FQ_push([@ EXCEPT !.queue[vf.fq.windex] =
                                [serial |-> vf.queue_serial,
                                 allocated |-> TRUE,
                                 pts |-> Dbl(vf.next_pts), duration |-> 40]]),
              !.next_pts = @ + 40,
              !.nframes = @ + 1]
  /\ UNCHANGED <<mainvars, fqs, cl, sy, ck, pqs, rd, au, sk, so, xs, adf, rl, ed, chp, prc, tp>>

\* toggle_pause() from the event loop
VF_toggle_pause ==
  /\ vf.pc = "loop"
  /\ vf' = [VF_stream_toggle_pause(vf) EXCEPT !.step = FALSE]
  /\ UNCHANGED <<mainvars, fqs, cl, sy, ck, pqs, rd, au, sk, so, xs, adf, rl, ed, chp, prc, tp>>

\* step_to_next_frame() from the event loop
VF_step_to_next_frame ==
  /\ vf.pc = "loop"
  /\ vf' = [(IF vf.paused THEN VF_stream_toggle_pause(vf) ELSE vf)
              EXCEPT !.step = TRUE]
  /\ UNCHANGED <<mainvars, fqs, cl, sy, ck, pqs, rd, au, sk, so, xs, adf, rl, ed, chp, prc, tp>>

\* the event loop on a window exposed / resized event: force_refresh = 1
VF_window_exposed ==
  /\ vf.pc = "loop"
  /\ ~vf.force_refresh
  /\ vf' = [vf EXCEPT !.force_refresh = TRUE]
  /\ UNCHANGED <<mainvars, fqs, cl, sy, ck, pqs, rd, au, sk, so, xs, adf, rl, ed, chp, prc, tp>>

\* refresh_loop_wait_event, lines 485-487: video_refresh is called
VF_refresh_start ==
  /\ vf.pc = "loop"
  /\ ~vf.paused \/ vf.force_refresh
  /\ vf' = [vf EXCEPT !.pc = "retry"]
  /\ UNCHANGED <<mainvars, fqs, cl, sy, ck, pqs, rd, au, sk, so, xs, adf, rl, ed, chp, prc, tp>>

\* lines 508-529 where an empty queue restarts frame_timer as a new serial
\* does
VF_retry_restart_on_empty ==
  /\ vf.pc = "retry"
  /\ vf' = IF FQ_nb_remaining(vf.fq) = 0
           THEN [vf EXCEPT !.frame_timer = vf.now, !.pc = "display"]
           ELSE IF FQ_peek(vf.fq).serial # vf.queue_serial
           THEN [vf EXCEPT !.fq = FQ_next(@)]
           ELSE [vf EXCEPT
                   !.frame_timer = IF FQ_peek_last(vf.fq).serial
                                      # FQ_peek(vf.fq).serial
                                   THEN vf.now ELSE @,
                   !.pc = IF vf.paused THEN "display" ELSE "sched"]
  /\ UNCHANGED <<mainvars, fqs, cl, sy, ck, pqs, rd, au, sk, so, xs, adf, rl, ed, chp, prc, tp>>

\* video_refresh, lines 508-529: nothing queued -> display; a frame of a stale
\* serial -> next() and retry; a frame of a new serial restarts frame_timer;
\* paused -> display
VF_retry ==
  /\ vf.pc = "retry"
  /\ vf' = IF FQ_nb_remaining(vf.fq) = 0
           THEN [vf EXCEPT !.pc = "display"]
           ELSE IF FQ_peek(vf.fq).serial # vf.queue_serial
           THEN [vf EXCEPT !.fq = FQ_next(@)]
           ELSE [vf EXCEPT
                   !.frame_timer = IF FQ_peek_last(vf.fq).serial
                                      # FQ_peek(vf.fq).serial
                                   THEN vf.now ELSE @,
                   !.pc = IF vf.paused THEN "display" ELSE "sched"]
  /\ UNCHANGED <<mainvars, fqs, cl, sy, ck, pqs, rd, au, sk, so, xs, adf, rl, ed, chp, prc, tp>>

\* video_refresh, lines 531-547: the target delay of the frame; not yet due
\* -> display; due -> frame_timer moves on and the video clock takes the
\* frame's pts
VF_sched ==
  /\ vf.pc = "sched"
  /\ LET lastvp == FQ_peek_last(vf.fq)
         vp == FQ_peek(vf.fq)
         last_duration == vp_duration(vf, lastvp, vp)
         delay == compute_target_delay(VF_engine(vf), last_duration)
         time == vf.now
     IN  vf' = IF time < vf.frame_timer + delay
               THEN [vf EXCEPT !.pc = "display"]
               ELSE [vf EXCEPT
                       !.frame_timer = VF_frame_timer_due(@, delay, time),
                       !.time = time,
                       !.delay = delay,
                       !.vidclk = IF vp.pts.nan THEN @
                                  ELSE SetClock(@, vp.pts, vp.serial, vf.now),
                       !.pc = "late"]
  /\ UNCHANGED <<mainvars, fqs, cl, sy, ck, pqs, rd, au, sk, so, xs, adf, rl, ed, chp, prc, tp>>

\* lines 549-603 without the pause that ends a step (lines 600-602)
VF_late_keeps_playing ==
  /\ vf.pc = "late"
  /\ vf' = IF FQ_nb_remaining(vf.fq) > 1
              /\ VF_drop_late(vf, vp_duration(vf, FQ_peek(vf.fq),
                                              FQ_peek_next(vf.fq)))
           THEN [vf EXCEPT !.frame_drops_late = @ + 1,
                           !.fq = FQ_next(@),
                           !.pc = "retry"]
           ELSE [vf EXCEPT !.fq = FQ_next(@),
                           !.force_refresh = TRUE,
                           !.pc = "display"]
  /\ UNCHANGED <<mainvars, fqs, cl, sy, ck, pqs, rd, au, sk, so, xs, adf, rl, ed, chp, prc, tp>>

\* video_refresh, lines 549-603: with a next frame queued and the current one
\* late it is dropped (frame_drops_late++, next(), retry); else next(),
\* force_refresh = 1 and the pause that ends a step
VF_late ==
  /\ vf.pc = "late"
  /\ vf' = IF FQ_nb_remaining(vf.fq) > 1
              /\ VF_drop_late(vf, vp_duration(vf, FQ_peek(vf.fq),
                                              FQ_peek_next(vf.fq)))
           THEN [vf EXCEPT !.frame_drops_late = @ + 1,
                           !.fq = FQ_next(@),
                           !.pc = "retry"]
           ELSE LET taken == [vf EXCEPT !.fq = FQ_next(@),
                                        !.force_refresh = TRUE,
                                        !.pc = "display"]
                IN  IF vf.step /\ ~vf.paused
                    THEN VF_stream_toggle_pause(taken)
                    ELSE taken
  /\ UNCHANGED <<mainvars, fqs, cl, sy, ck, pqs, rd, au, sk, so, xs, adf, rl, ed, chp, prc, tp>>

\* video_refresh, lines 604-612: video_display() of the frame last shown when
\* a refresh is forced; force_refresh = 0 and the call (with its time and
\* delay) ends
VF_display ==
  /\ vf.pc = "display"
  /\ vf' = [vf EXCEPT !.force_refresh = FALSE, !.time = 0, !.delay = 0,
                      !.pc = "loop"]
  /\ UNCHANGED <<mainvars, fqs, cl, sy, ck, pqs, rd, au, sk, so, xs, adf, rl, ed, chp, prc, tp>>

InitRefresh ==
  /\ MainVarsInit
  /\ fqs = NotRunning
  /\ cl = NotRunning
  /\ sy = NotRunning
  /\ ck = NotRunning
  /\ pqs = NotRunning
  /\ rd = NotRunning
  /\ au = NotRunning
  /\ sk = NotRunning
  /\ so = NotRunning
  /\ xs = NotRunning
  /\ adf = NotRunning
  /\ rl = NotRunning
  /\ ed = NotRunning
  /\ chp = NotRunning
  /\ prc = NotRunning
  /\ tp = NotRunning
  /\ \E av_sync_type \in {"AUDIO", "VIDEO"}, framedrop \in {-1, 0, 1} :
       vf = RefreshInit(av_sync_type, framedrop)

NextRefresh ==
  \/ VF_tick \/ VF_seek_flush \/ VF_queue_picture
  \/ VF_toggle_pause \/ VF_step_to_next_frame \/ VF_window_exposed
  \/ VF_refresh_start \/ VF_retry \/ VF_sched \/ VF_late \/ VF_display

SpecRefresh == InitRefresh /\ [][NextRefresh]_vars

\* the frame at the head of the queue has just been found due and
\* frame_timer updated for it
VF_due_processed == vf.pc = "late"

\* C25 as stated: each time a frame becomes due, frame_timer is advanced by
\* delay and reset to now if it then lags now by more than
\* AV_SYNC_THRESHOLD_MAX, so that once a due frame has been processed
\* 0 <= now - frame_timer <= 0.1 s.
C25_TimerWithinThresholdOfNow ==
  VF_due_processed =>
    /\ 0 <= vf.time - vf.frame_timer
    /\ vf.time - vf.frame_timer <= AV_SYNC_THRESHOLD_MAX

\* one call's step from the due test to the updated frame_timer
C25_DueStep ==
  (vf.pc = "sched" /\ vf'.pc = "late") =>
    LET advanced == vf.frame_timer + vf'.delay
    IN  /\ vf'.time >= advanced
        /\ vf'.frame_timer =
             IF vf'.delay > 0 /\ vf'.time - advanced > AV_SYNC_THRESHOLD_MAX
             THEN vf'.time
             ELSE advanced

\* C25 as amended: each time a frame becomes due (now >= frame_timer + delay)
\* frame_timer is advanced by delay and, if delay > 0 and it then lags now by
\* more than AV_SYNC_THRESHOLD_MAX, is reset to now; once a due frame has been
\* processed 0 <= now - frame_timer, and now - frame_timer <= 0.1 s when the
\* frame's delay was positive.
C25_TimerResetForPositiveDelay ==
  /\ [](VF_due_processed =>
          /\ 0 <= vf.time - vf.frame_timer
          /\ vf.delay > 0 =>
               vf.time - vf.frame_timer <= AV_SYNC_THRESHOLD_MAX)
  /\ [][C25_DueStep]_vars

\* a due frame with a positive delay processed after a stall: frame_timer
\* was reset to now
C25_Witness ==
  /\ VF_due_processed
  /\ vf.delay > 0
  /\ vf.time >= 150
  /\ vf.frame_timer = vf.time
  /\ vf.nframes >= 2

\* a due frame with delay 0 processed after a stall: frame_timer stays behind
C25_WitnessZeroDelay ==
  /\ VF_due_processed
  /\ vf.delay = 0
  /\ vf.time - vf.frame_timer > AV_SYNC_THRESHOLD_MAX

\* frame dropping is enabled: framedrop > 0, or framedrop non-zero and video
\* is not the master
C26_dropping_enabled ==
  \/ vf.framedrop > 0
  \/ (vf.framedrop # 0 /\ vf.av_sync_type # "VIDEO")

\* single-step is off, dropping is enabled, a next frame is queued and the
\* time video_refresh read is past frame_timer + duration(current, next)
C26_must_drop ==
  /\ ~vf.step
  /\ C26_dropping_enabled
  /\ FQ_nb_remaining(vf.fq) > 1
  /\ LET vp == FQ_peek(vf.fq)
         nextvp == FQ_peek_next(vf.fq)
         d == nextvp.pts.v - vp.pts.v
     IN  vf.time > vf.frame_timer
                   + (IF vp.serial # nextvp.serial THEN 0
                      ELSE IF d <= 0 \/ d > vf.max_frame_duration
                      THEN vp.duration ELSE d)

\* the step video_refresh takes with a due frame (the decoder and the reader
\* may step in between)
C26_DueFrameStep ==
  (VF_due_processed /\ vf'.pc # "late") =>
    LET shown_at == (vf.fq.rindex + vf.fq.rindex_shown) % vf.fq.max_size
        shown_after == (vf'.fq.rindex + vf'.fq.rindex_shown) % vf.fq.max_size
    IN  /\ shown_after = (shown_at + 1) % vf.fq.max_size
        /\ IF C26_must_drop
           THEN /\ vf'.frame_drops_late = vf.frame_drops_late + 1
                /\ vf'.pc = "retry"
                /\ vf'.force_refresh = vf.force_refresh
           ELSE /\ vf'.frame_drops_late = vf.frame_drops_late
                /\ vf'.pc = "display"
                /\ vf'.force_refresh

\* C26: video_refresh drops the current due frame instead of displaying it
\* (advancing the read index, incrementing frame_drops_late by one and
\* retrying) exactly when single-step is off, frame dropping is enabled
\* (framedrop > 0, or framedrop non-zero and video is not the master), a next
\* frame is queued, and now > frame_timer + duration(current, next); in every
\* other case the due frame is consumed for display and force_refresh is set.
C26_LateFrameDroppedExactlyWhen == [][C26_DueFrameStep]_vars

\* a late frame has been dropped: the call is back at retry with the drop
\* counted and a frame still queued
C26_Witness ==
  /\ vf.pc = "retry"
  /\ vf.frame_drops_late = 1
  /\ FQ_nb_remaining(vf.fq) >= 1
  /\ vf.framedrop = -1

\* a late frame with a successor is shown, not dropped, while stepping
C26_WitnessStep ==
  /\ VF_due_processed
  /\ vf.step
  /\ vf.framedrop = 1
  /\ FQ_nb_remaining(vf.fq) > 1
  /\ vf.time > vf.frame_timer + 40

(***************************************************************************)
(* Specification SpecSpeed: the speed of the external clock under          *)
(* check_external_clock_speed (core/video_state.cpp), called by            *)
(* video_refresh with whatever the packet queues hold.                     *)
(*                                                                         *)
(* The speed is a double.  A double s of [0.9, 1.01] is the record [k, e]  *)
(* with s = 1 + (k * Q + e) * 2^-53, where Q = 9007199254741 and e is      *)
(* small: k counts steps of 0.001 and e the rounding error in units of     *)
(* 2^-53.  EXTERNAL_CLOCK_SPEED_STEP, the double nearest 0.001, is         *)
(* (Q - 1/128) * 2^-53.  The doubles below 1.0 are the multiples of 2^-53  *)
(* and those from 1.0 on the multiples of 2^-52, so that k * Q + e is even *)
(* there; Q is odd.  An addition rounds to the nearest double.             *)
(***************************************************************************)
SpeedOne == [k |-> 0, e |-> 0]

\* the doubles nearest 0.900 and 1.010
EXTERNAL_CLOCK_SPEED_MIN == [k |-> -100, e |-> 1]
EXTERNAL_CLOCK_SPEED_MAX == [k |-> 10, e |-> 0]

\* the sign of s - 1.0
speed_sign(s) ==
  IF s.k > 0 THEN 1 ELSE IF s.k < 0 THEN -1
  ELSE IF s.e > 0 THEN 1 ELSE IF s.e < 0 THEN -1 ELSE 0

\* a < b
speed_lt(a, b) == a.k < b.k \/ (a.k = b.k /\ a.e < b.e)

\* s + EXTERNAL_CLOCK_SPEED_STEP: the exact sum is 1/128 below the integer
\* (k + 1) * Q + e; below 1.0 it rounds to that integer, above to the nearest
\* even one
speed_add_step(s) ==
  LET t == [k |-> s.k + 1, e |-> s.e]
  IN  IF speed_sign(t) <= 0 \/ (t.k + t.e) % 2 = 0
      THEN t
      ELSE [t EXCEPT !.e = @ - 1]

\* s - EXTERNAL_CLOCK_SPEED_STEP: the exact difference is 1/128 above the
\* integer (k - 1) * Q + e
speed_sub_step(s) ==
  LET t == [k |-> s.k - 1, e |-> s.e]
  IN  IF speed_sign(t) < 0 \/ (t.k + t.e) % 2 = 0
      THEN t
      ELSE [t EXCEPT !.e = @ + 1]

\* lines 1260-1263: an open stream's packet queue is nearly empty
XS_low(x, vnb, anb) ==
  \/ (x.video_stream /\ vnb <= EXTERNAL_CLOCK_MIN_FRAMES)
  \/ (x.audio_stream /\ anb <= EXTERNAL_CLOCK_MIN_FRAMES)

\* lines 1266-1269: the packet queue of every open stream is well filled
XS_high(x, vnb, anb) ==
  /\ (~x.video_stream \/ vnb > EXTERNAL_CLOCK_MAX_FRAMES)
  /\ (~x.audio_stream \/ anb > EXTERNAL_CLOCK_MAX_FRAMES)

\* check_external_clock_speed() without the FFMAX / FFMIN
check_external_clock_speed_unclamped(x, vnb, anb) ==
  IF XS_low(x, vnb, anb)
  THEN speed_sub_step(x.speed)
  ELSE IF XS_high(x, vnb, anb)
  THEN speed_add_step(x.speed)
  ELSE IF x.speed # SpeedOne
  THEN IF speed_sign(x.speed) < 0 THEN speed_add_step(x.speed)
       ELSE speed_sub_step(x.speed)
  ELSE x.speed

\* check_external_clock_speed(): the speed it hands to SetClockSpeed(), or the
\* unchanged speed.  The step of the last branch, EXTERNAL_CLOCK_SPEED_STEP *
\* (1.0 - speed) / fabs(1.0 - speed), is the step itself with the sign of
\* 1.0 - speed for every speed of this model.
check_external_clock_speed(x, vnb, anb) ==
  IF XS_low(x, vnb, anb)
  THEN LET slower == speed_sub_step(x.speed)
       IN  IF speed_lt(slower, EXTERNAL_CLOCK_SPEED_MIN)
           THEN EXTERNAL_CLOCK_SPEED_MIN ELSE slower
  ELSE IF XS_high(x, vnb, anb)
  THEN LET faster == speed_add_step(x.speed)
       IN  IF speed_lt(EXTERNAL_CLOCK_SPEED_MAX, faster)
           THEN EXTERNAL_CLOCK_SPEED_MAX ELSE faster
  ELSE IF x.speed # SpeedOne
  THEN IF speed_sign(x.speed) < 0 THEN speed_add_step(x.speed)
       ELSE speed_sub_step(x.speed)
  ELSE x.speed

\* nb_packets() of a packet queue when video_refresh looks
FillLevels ==
  {0, EXTERNAL_CLOCK_MIN_FRAMES, EXTERNAL_CLOCK_MIN_FRAMES + 1,
   EXTERNAL_CLOCK_MAX_FRAMES, EXTERNAL_CLOCK_MAX_FRAMES + 1}

\* video_refresh, lines 492-496: not paused, the external clock is the master
\* and the source is realtime -> check_external_clock_speed().  prev is the
\* speed before the call and fill the condition the call found.
XS_check ==
  /\ \E vnb \in FillLevels, anb \in FillLevels :
       xs' = [xs EXCEPT
                !.speed = check_external_clock_speed(xs, vnb, anb),
                !.prev = xs.speed,
                !.fill = IF XS_low(xs, vnb, anb) THEN "low"
                         ELSE IF XS_high(xs, vnb, anb) THEN "high"
                         ELSE "between"]
  /\ UNCHANGED <<mainvars, fqs, cl, sy, ck, pqs, rd, au, sk, so, vf, adf, rl, ed, chp, prc, tp>>

InitSpeed ==
  /\ MainVarsInit
  /\ fqs = NotRunning
  /\ cl = NotRunning
  /\ sy = NotRunning
  /\ ck = NotRunning
  /\ pqs = NotRunning
  /\ rd = NotRunning
  /\ au = NotRunning
  /\ sk = NotRunning
  /\ so = NotRunning
  /\ vf = NotRunning
  /\ adf = NotRunning
  /\ rl = NotRunning
  /\ ed = NotRunning
  /\ chp = NotRunning
  /\ prc = NotRunning
  /\ tp = NotRunning
  /\ \E video_stream \in BOOLEAN, audio_stream \in BOOLEAN :
       /\ video_stream \/ audio_stream
       /\ xs = SpeedInit(video_stream, audio_stream)

NextSpeed == XS_check

SpecSpeed == InitSpeed /\ [][NextSpeed]_vars

\* a <= b for speeds
C27_le(a, b) == ~speed_lt(b, a)

\* C27: starting from speed 1.0, after any sequence of
\* check_external_clock_speed calls under any packet-queue fill levels, the
\* external clock's speed stays within [0.900, 1.010] and changes by at most
\* 0.001 per call: by no more than one step of Q * 2^-53, to within the last
\* bit of the double.
C27_SpeedBoundedAndStepwise ==
  /\ C27_le(EXTERNAL_CLOCK_SPEED_MIN, xs.speed)
  /\ C27_le(xs.speed, EXTERNAL_CLOCK_SPEED_MAX)
  /\ LET dk == xs.speed.k - xs.prev.k
         de == xs.speed.e - xs.prev.e
     IN  /\ dk \in {-1, 0, 1}
         /\ dk = 1 => de <= 1
         /\ dk = -1 => de >= -1

\* a call with a nearly empty queue found the speed at 0.900 and left it there
C27_Witness ==
  /\ xs.fill = "low"
  /\ xs.prev = EXTERNAL_CLOCK_SPEED_MIN
  /\ xs.speed = EXTERNAL_CLOCK_SPEED_MIN

\* a call with full queues found the speed at 1.010 and left it there
C27_WitnessMax ==
  /\ xs.fill = "high"
  /\ xs.prev = EXTERNAL_CLOCK_SPEED_MAX
  /\ xs.speed = EXTERNAL_CLOCK_SPEED_MAX

\* C28: while neither the low-fill condition (some open stream has at most 2
\* queued packets) nor the high-fill condition (every open stream has more
\* than 10) holds, each check_external_clock_speed call moves the external
\* clock speed by one 0.001 step toward 1.0 and leaves a speed of exactly 1.0
\* unchanged, so that repeated checks bring the speed to 1.0 without
\* overshooting it.
C28_RelaxStep ==
  xs'.fill = "between" =>
    IF xs.speed = SpeedOne
    THEN xs'.speed = SpeedOne
    ELSE IF speed_lt(xs.speed, SpeedOne)
    THEN /\ xs'.speed.k = xs.speed.k + 1
         /\ C27_le(xs'.speed, SpeedOne)
    ELSE /\ xs'.speed.k = xs.speed.k - 1
         /\ C27_le(SpeedOne, xs'.speed)

C28_RelaxesToOneWithoutOvershoot == [][C28_RelaxStep]_vars

(***************************************************************************)
(* Specification SpecFilter: the averaging filter of the audio-to-master   *)
(* difference over successive calls of synchronize_audio                   *)
(* (core/video_state.cpp) or SynchronizeAudio (video_state.cpp) from the   *)
(* audio callback, the audio stream being open, with the (re)opening of    *)
(* the audio stream component.  Times are in ms; audio_diff_avg_coef =     *)
(* exp(log(0.01) / AUDIO_DIFF_AVG_NB) = 0.794 is taken in thousandths.     *)
(***************************************************************************)
\* the streams and clocks a call of synchronize_audio sees
AF_engine(a, aclock, mclock) ==
  [av_sync_type |-> a.av_sync_type, video_st |-> a.video_st, audio_st |-> TRUE,
   vclock |-> mclock, aclock |-> aclock, sclock |-> mclock,
   audio_diff_avg_count |-> a.audio_diff_avg_count, freq |-> 48000]

\* the master sync type of the build at hand
AF_master(a, e) ==
  IF a.build = "core" THEN get_master_sync_type(e) ELSE GetMasterSyncType(e)

\* audio_engine_->GetClock() - get_master_clock()
AF_diff(a, e) ==
  dsub(e.aclock, IF a.build = "core" THEN get_master_clock(e)
                 ELSE GetMasterClock(e))

\* audio_diff_cum that a reset leaves alone
audio_diff_cum_after_unreset(master, diff, audio_diff_cum) ==
  IF master # "AUDIO" /\ ~diff.nan /\ fabs(diff.v) < AV_NOSYNC_THRESHOLD
  THEN diff.v + CDiv(794 * audio_diff_cum, 1000)
  ELSE audio_diff_cum

\* synchronize_audio, lines 1461-1465 and 1481-1486: audio_diff_cum after the
\* call: diff + audio_diff_avg_coef * audio_diff_cum for a usable difference,
\* 0 after a reset, untouched when audio is the master
audio_diff_cum_after(master, diff, audio_diff_cum) ==
  IF master # "AUDIO"
  THEN IF ~diff.nan /\ fabs(diff.v) < AV_NOSYNC_THRESHOLD
       THEN diff.v + CDiv(794 * audio_diff_cum, 1000)
       ELSE 0
  ELSE audio_diff_cum

\* synchronize_audio, line 1471: avg_diff = audio_diff_cum * (1.0 -
\* audio_diff_avg_coef)
AF_avg_diff(audio_diff_cum) == CDiv(206 * audio_diff_cum, 1000)

\* audio_decode_frame -> synchronize_audio(nb_samples) with what the clocks
\* return now.  The call record keeps the difference measured, the counter and
\* the sum before the call and nth, the number of usable differences measured
\* since the filter was initialised or reset, this one included.
AF_synchronize_audio ==
  /\ \E nb_samples \in NbSamples,
        aclock \in {NaN, Dbl(100), Dbl(10000)},
        mclock \in {Dbl(0)} :
       LET e == AF_engine(adf, aclock, mclock)
           master == AF_master(adf, e)
           diff == AF_diff(adf, e)
           cum == audio_diff_cum_after(master, diff, adf.audio_diff_cum)
           avg_over == fabs(AF_avg_diff(cum)) >= adf.audio_diff_threshold
           r == IF adf.build = "core"
                THEN synchronize_audio(e, nb_samples, avg_over)
                ELSE SynchronizeAudio(e, nb_samples, avg_over)
           usable == ~diff.nan /\ fabs(diff.v) < AV_NOSYNC_THRESHOLD
           nth == IF master = "AUDIO" THEN adf.measured
                  ELSE IF usable
                  THEN FFMIN(adf.measured + 1, AUDIO_DIFF_AVG_NB + 1)
                  ELSE 0
       IN  adf' = [adf EXCEPT
                    !.audio_diff_avg_count = r.audio_diff_avg_count,
                    !.audio_diff_cum = cum,
                    !.measured = nth,
                    !.call = [op |-> "synchronize_audio",
                              nb_samples |-> nb_samples, ret |-> r.ret,
                              master |-> master, diff |-> diff,
                              count_before |-> adf.audio_diff_avg_count,
                              cum_before |-> adf.audio_diff_cum]]
  /\ UNCHANGED <<mainvars, fqs, cl, sy, ck, pqs, rd, au, sk, so, vf, xs, rl, ed, chp, prc, tp>>

\* stream_component_open of the audio stream (at start, or after
\* stream_component_close when the audio channel is cycled), lines 273-275:
\* init averaging filter
AF_stream_component_open ==
  /\ adf.call.op # "none"
  /\ adf' = [adf EXCEPT !.audio_diff_avg_count = 0, !.measured = 0,
                      !.call = NoFilterCall]
  /\ UNCHANGED <<mainvars, fqs, cl, sy, ck, pqs, rd, au, sk, so, vf, xs, rl, ed, chp, prc, tp>>

InitFilter ==
  /\ MainVarsInit
  /\ fqs = NotRunning
  /\ cl = NotRunning
  /\ sy = NotRunning
  /\ ck = NotRunning
  /\ pqs = NotRunning
  /\ rd = NotRunning
  /\ au = NotRunning
  /\ sk = NotRunning
  /\ so = NotRunning
  /\ vf = NotRunning
  /\ xs = NotRunning
  /\ \E build \in {"core", "video_state"},
        av_sync_type \in {"AUDIO", "VIDEO", "EXTERNAL"},
        video_st \in BOOLEAN, audio_diff_threshold \in {40, 120} :
       /\ build = "video_state" => av_sync_type # "EXTERNAL"
       /\ adf = FilterInit(build, av_sync_type, video_st, audio_diff_threshold)
  /\ rl = NotRunning
  /\ ed = NotRunning
  /\ chp = NotRunning
  /\ prc = NotRunning
  /\ tp = NotRunning


NextFilter == AF_synchronize_audio \/ AF_stream_component_open

SpecFilter == InitFilter /\ [][NextFilter]_vars

\* a call of synchronize_audio has returned
AF_called == adf.call.op = "synchronize_audio"

\* the difference the call measured is usable: not NaN and below
\* AV_NOSYNC_THRESHOLD in magnitude
AF_usable == ~adf.call.diff.nan /\ fabs(adf.call.diff.v) < AV_NOSYNC_THRESHOLD

\* C29: synchronize_audio returns nb_samples unchanged whenever correction is
\* not active: when audio is the master (the averaging state is then left
\* untouched), and, when audio is a slave, for each of the first
\* AUDIO_DIFF_AVG_NB (20) valid measurements after the filter was initialised
\* or reset; a corrected sample count can be returned only from the following
\* measurement on and only if the averaged difference reaches the
\* hardware-buffer threshold.
C29_UncorrectedUntilFilterFull ==
  AF_called =>
    /\ adf.call.master = "AUDIO" =>
         /\ adf.call.ret = adf.call.nb_samples
         /\ adf.audio_diff_avg_count = adf.call.count_before
         /\ adf.audio_diff_cum = adf.call.cum_before
    /\ (adf.call.master # "AUDIO" /\ AF_usable
        /\ adf.measured <= AUDIO_DIFF_AVG_NB) =>
         adf.call.ret = adf.call.nb_samples
    /\ adf.call.ret # adf.call.nb_samples =>
         /\ adf.call.master # "AUDIO"
         /\ adf.measured > AUDIO_DIFF_AVG_NB
         /\ fabs(CDiv(206 * adf.audio_diff_cum, 1000)) >= adf.audio_diff_threshold

\* the 21st usable measurement since the filter was initialised returns a
\* corrected sample count
C29_Witness ==
  /\ AF_called
  /\ adf.call.master # "AUDIO"
  /\ adf.call.count_before = AUDIO_DIFF_AVG_NB
  /\ adf.measured = AUDIO_DIFF_AVG_NB + 1
  /\ adf.call.ret # adf.call.nb_samples

\* the 20th usable measurement, with the average past the threshold, returns
\* nb_samples
C29_WitnessTwentieth ==
  /\ AF_called
  /\ adf.call.master # "AUDIO"
  /\ adf.measured = AUDIO_DIFF_AVG_NB
  /\ adf.call.nb_samples = 1024
  /\ adf.call.ret = 1024
  /\ CDiv(206 * adf.audio_diff_cum, 1000) >= adf.audio_diff_threshold

\* C30: when audio is a slave and the instantaneous difference between the
\* audio clock and the master clock is NaN or at least AV_NOSYNC_THRESHOLD
\* (10 s) in magnitude, synchronize_audio resets the averaging filter
\* (audio_diff_avg_count = 0, audio_diff_cum = 0) and returns nb_samples
\* unchanged instead of correcting.
C30_UnusableDifferenceResetsFilter ==
  (AF_called /\ adf.call.master # "AUDIO" /\ ~AF_usable) =>
    /\ adf.audio_diff_avg_count = 0
    /\ adf.audio_diff_cum = 0
    /\ adf.call.ret = adf.call.nb_samples

\* a NaN difference met a full filter that was correcting
C30_Witness ==
  /\ AF_called
  /\ adf.call.master # "AUDIO"
  /\ adf.call.diff.nan
  /\ adf.call.count_before = AUDIO_DIFF_AVG_NB
  /\ CDiv(206 * adf.call.cum_before, 1000) >= adf.audio_diff_threshold
  /\ adf.audio_diff_avg_count = 0

\* a difference of exactly AV_NOSYNC_THRESHOLD met a filter in use
C30_WitnessThreshold ==
  /\ AF_called
  /\ adf.call.master # "AUDIO"
  /\ ~adf.call.diff.nan
  /\ adf.call.diff.v = AV_NOSYNC_THRESHOLD
  /\ adf.call.cum_before # 0
  /\ adf.audio_diff_cum = 0

\* the fields of the render state that a refresh of an empty queue may not
\* touch
C31_render_state(v) ==
  <<v.frame_timer, v.vidclk, v.fq.rindex, v.fq.rindex_shown,
    v.frame_drops_late>>

\* a step of video_refresh that has found, or finds, no frame remaining
C31_EmptyRefreshStep ==
  /\ (vf.pc = "retry" /\ FQ_nb_remaining(vf.fq) = 0 /\ vf'.pc # "retry") =>
       /\ vf'.pc = "display"
       /\ C31_render_state(vf') = C31_render_state(vf)
  /\ (vf.pc = "display" /\ FQ_nb_remaining(vf.fq) = 0 /\ vf'.pc # "display") =>
       /\ vf'.pc = "loop"
       /\ C31_render_state(vf') = C31_render_state(vf)

\* C31: video_refresh called while the video frame queue has no frame
\* remaining returns without blocking (each of its steps is enabled) and
\* leaves frame_timer, the video clock, the frame queue's read index and the
\* late-drop counter unchanged.
C31_EmptyQueueRefreshIsNoop ==
  /\ [](vf.pc = "retry" => ENABLED VF_retry)
  /\ [](vf.pc = "display" => ENABLED VF_display)
  /\ [][C31_EmptyRefreshStep]_vars

\* the decoder has stalled after a frame was shown: an unpaused refresh found
\* the queue empty and is about to return
C31_Witness ==
  /\ vf.pc = "display"
  /\ FQ_nb_remaining(vf.fq) = 0
  /\ ~vf.force_refresh
  /\ ~vf.paused
  /\ vf.nframes >= 1
  /\ vf.frame_timer > 0
  /\ vf.now > vf.frame_timer

\* video_refresh takes the head frame for display: frame_queue_->next() of
\* line 597, not the drop of line 557
C34_takes_frame ==
  /\ vf.pc = "late"
  /\ vf'.pc = "display"

\* step_to_next_frame() or toggle_pause() is called from the event loop
C34_step_or_toggle_called ==
  /\ vf.pc = "loop"
  /\ vf'.pc = "loop"
  /\ vf'.paused # vf.paused \/ vf'.step # vf.step

C34_StepStep ==
  \* step_to_next_frame() leaves playback unpaused with step set
  /\ (vf.pc = "loop" /\ vf'.pc = "loop" /\ ~vf.step /\ vf'.step)
       => ~vf'.paused
  \* no late drop while stepping
  /\ vf.step => vf'.frame_drops_late = vf.frame_drops_late
  \* the frame taken while stepping is one that passed the serial test of
  \* this call, and taking it pauses playback: stream_toggle_pause() moves
  \* no timer when it pauses
  /\ (vf.step /\ C34_takes_frame)
       => /\ ~vf.paused
          /\ vf'.paused /\ vf'.step
          /\ vf'.vidclk.paused
          /\ vf'.frame_timer = vf.frame_timer
          /\ FQ_peek(vf.fq).serial = vf.vidclk.serial
  \* stepping ends paused only by taking a frame
  /\ (vf'.step /\ vf'.paused /\ ~(vf.step /\ vf.paused)) => C34_takes_frame
  \* paused after the step, no further frame is taken (only frames of a
  \* stale serial are still discarded) until the next call
  /\ (vf.step /\ vf.paused)
       => /\ ~C34_takes_frame
          /\ vf'.fq.rindex # vf.fq.rindex
               => FQ_peek(vf.fq).serial # vf.queue_serial
          /\ ~(vf'.step /\ vf'.paused) => C34_step_or_toggle_called

C38_ClockValues ==
  {NaN} \cup {Dbl(t) : t \in {-20000, -100, -40, 0, 40, 100, 20000}}

\* the frame at the head of the queue begins a new serial: it has the packet
\* queue's serial and the frame shown last has another
C38_first_of_serial(v) ==
  /\ FQ_nb_remaining(v.fq) > 0
  /\ FQ_peek(v.fq).serial = v.queue_serial
  /\ FQ_peek_last(v.fq).serial # FQ_peek(v.fq).serial

C38_RefreshStep ==
  \* lines 519-529: frame_timer restarts and the delay is computed next
  /\ (vf.pc = "retry" /\ vf'.pc # "retry" /\ C38_first_of_serial(vf)
        /\ ~vf.paused)
       => /\ vf'.frame_timer = vf.now
          /\ vf'.pc = "sched"
  \* lines 531-543: the delay is 0 whatever the clocks read, the frame is due
  \* and frame_timer stays at now
  /\ (vf.pc = "sched" /\ vf'.pc # "sched"
        /\ FQ_peek_last(vf.fq).serial # FQ_peek(vf.fq).serial)
       => /\ \A vc \in C38_ClockValues, ac \in C38_ClockValues,
                sync \in {"AUDIO", "VIDEO", "EXTERNAL"} :
               compute_target_delay(
                 [VF_engine(vf) EXCEPT !.vclock = vc, !.aclock = ac,
                                       !.sclock = ac, !.av_sync_type = sync],
                 vp_duration(vf, FQ_peek_last(vf.fq), FQ_peek(vf.fq))) = 0
          /\ vf'.pc = "late"
          /\ vf'.delay = 0
          /\ vf'.frame_timer = vf.now

\* C38: when the head frame has the packet queue's serial and the frame shown
\* last has another, an unpaused video_refresh sets frame_timer to now, the
\* target delay it computes is 0 for every clock state, and the frame is due
\* in the same call: it is not made to wait.
C38_FirstFrameOfSerialIsDue == [][C38_RefreshStep]_vars

\* after a seek the first frame of the new serial has just been found due,
\* with the audio master clock far ahead of the unset video clock
C38_Witness ==
  /\ vf.pc = "late"
  /\ vf.queue_serial = 1
  /\ FQ_peek(vf.fq).serial = 1
  /\ FQ_peek_last(vf.fq).serial = 0
  /\ vf.fq.rindex_shown = 1
  /\ vf.delay = 0
  /\ vf.frame_timer = vf.now
  /\ vf.av_sync_type = "AUDIO"

(***************************************************************************)
(* SpecLoop: the loop of read_thread (core/video_state.cpp:1948-2090,      *)
(* video_state.cpp:1654-1747): the seek request, the attachments request,  *)
(* the full queues, the end-of-playback test with the loop count and       *)
(* autoexit, and av_read_frame.  Beside it the decoder threads drain the   *)
(* packet queues, the render side takes the frames, and the main thread    *)
(* seeks and pauses.  No stream has an attached picture, every packet read *)
(* belongs to an open stream and av_read_frame() fails only at the end of  *)
(* the input.  frames[k] is nb_remaining() of the frame queue of stream    *)
(* kind k, finished[k] the decoder's finished serial, left the number of   *)
(* packets av_read_frame() has before the end of the input.                *)
(***************************************************************************)
\* a decoder that has not drained any segment
NoSerial == -1

\* the seek the user asks for: stream_seek(pos, rel, seek_by_bytes)
SeekRequests == {[pos |-> 10, rel |-> 10, by_bytes |-> TRUE]}

\* read_thread's restart: stream_seek(start_time or 0, 0, 0), start_time
\* being unset
RestartRequest == [pos |-> 0, rel |-> 0, by_bytes |-> FALSE]

\* no stream_seek call recorded
NoSeekCall == [by |-> "none", pos |-> 0, rel |-> 0, by_bytes |-> FALSE]

\* the session when read_thread enters its loop.  The fields from pending on
\* record what happened: the request that set seek_req and who made it, the
\* last call that found that request pending, the accepted requests not yet
\* sought, the number of successful seeks made for a restart, whether the
\* seek of a restart failed, the number of seek keys pressed, the loop count
\* given
LoopInit(open, loop, autoexit) ==
  [open |-> open,
   q |-> [k \in StreamKinds |-> PacketQueue_Init],
   finished |-> [k \in StreamKinds |-> NoSerial],
   frames |-> [k \in StreamKinds |-> 0],
   seek_req |-> FALSE, seek_pos |-> 0, seek_rel |-> 0, seek_by_bytes |-> FALSE,
   queue_attachments_req |-> open["video"], eof |-> FALSE,
   paused |-> FALSE, loop |-> loop, autoexit |-> autoexit,
   left |-> MaxPackets, pc_rd |-> "loop", ret |-> 0,
   pending |-> NoSeekCall, ignored |-> NoSeekCall,
   unserved |-> 0, restarts |-> 0, restart_failed |-> FALSE,
   user_seeks |-> 0, loop_given |-> loop]

\* stream_seek() that takes the new request over a pending one
RL_stream_seek_overwrite(a, by, req) ==
  [a EXCEPT !.seek_pos = req.pos, !.seek_rel = req.rel,
            !.seek_by_bytes = req.by_bytes, !.seek_req = TRUE,
            !.ignored = IF a.seek_req
                        THEN [by |-> by, pos |-> req.pos, rel |-> req.rel,
                              by_bytes |-> req.by_bytes]
                        ELSE @,
            !.pending = IF a.seek_req THEN @
                        ELSE [by |-> by, pos |-> req.pos, rel |-> req.rel,
                              by_bytes |-> req.by_bytes],
            !.unserved = IF a.seek_req THEN @ ELSE @ + 1]

\* stream_seek(pos, rel, seek_by_bytes) called by thread by: if (!seek_req)
\* it stores pos, rel and the byte flag and sets seek_req; else nothing
RL_stream_seek(a, by, req) ==
  IF ~a.seek_req
  THEN [a EXCEPT !.seek_pos = req.pos, !.seek_rel = req.rel,
                 !.seek_by_bytes = req.by_bytes, !.seek_req = TRUE,
                 !.pending = [by |-> by, pos |-> req.pos, rel |-> req.rel,
                              by_bytes |-> req.by_bytes],
                 !.unserved = @ + 1]
  ELSE [a EXCEPT !.ignored = [by |-> by, pos |-> req.pos, rel |-> req.rel,
                              by_bytes |-> req.by_bytes]]

\* read_thread, seek succeeded: flush() and put(flush_pkt()) on the packet
\* queue of each open stream
RL_seek_flush(a) ==
  [a EXCEPT !.q = [k \in StreamKinds |->
                     IF a.open[k]
                     THEN PacketQueue_put(PacketQueue_flush(a.q[k]),
                                          flush_pkt).q
                     ELSE a.q[k]]]

\* the test that ends or restarts playback: not paused, and each of the audio
\* and the video stream is not open or its decoder has finished the queue's
\* serial with no frame remaining
RL_playback_ended(a) ==
  /\ ~a.paused
  /\ \A k \in {"audio", "video"} :
       ~a.open[k] \/ (a.finished[k] = a.q[k].serial /\ a.frames[k] = 0)

\* read_thread, the end-of-playback test: if (loop != 1 && (!loop || --loop))
\* stream_seek(start, 0, 0); else if (autoexit) it leaves with AVERROR_EOF
RL_end_check(a) ==
  IF RL_playback_ended(a)
  THEN LET counted == [a EXCEPT !.loop = IF @ # 1 /\ @ # 0 THEN @ - 1 ELSE @]
       IN  IF a.loop # 1 /\ (a.loop = 0 \/ counted.loop # 0)
           THEN RL_stream_seek(counted, "reader", RestartRequest)
           ELSE IF counted.autoexit
           THEN [counted EXCEPT !.ret = "AVERROR_EOF", !.pc_rd = "done"]
           ELSE counted
  ELSE a

\* read_thread, av_read_frame() reports the end of the input: unless eof_ is
\* set, each open stream's queue gets a null packet and eof_ is set
RL_end_of_input(a) ==
  [a EXCEPT !.q = [k \in StreamKinds |->
                     IF ~a.eof /\ a.open[k]
                     THEN PacketQueue_put_nullpacket(a.q[k]).q
                     ELSE a.q[k]],
            !.eof = TRUE]

\* the event loop seeks on a key press
RL_user_seek ==
  /\ rl.pc_rd # "done"
  /\ rl.user_seeks < MaxSeeks
  /\ \E req \in SeekRequests :
       rl' = [RL_stream_seek(rl, "main", req) EXCEPT !.user_seeks = @ + 1]
  /\ UNCHANGED <<mainvars, fqs, cl, sy, ck, pqs, rd, au, sk, so, vf, xs, adf, ed, chp, prc, tp>>

\* toggle_pause() from the event loop
RL_toggle_pause ==
  /\ rl.pc_rd # "done"
  /\ rl' = [rl EXCEPT !.paused = ~@]
  /\ UNCHANGED <<mainvars, fqs, cl, sy, ck, pqs, rd, au, sk, so, vf, xs, adf, ed, chp, prc, tp>>

\* read_thread at the top of its loop: with seek_req set,
\* avformat_seek_file() is called with seek_pos, seek_rel and seek_flags and
\* succeeds or fails; on success the queues are flushed and the input is read
\* from the target again; then seek_req = 0, queue_attachments_req = 1,
\* eof_ = false and, if paused, step_to_next_frame(), which leaves the pause
RL_read_seek ==
  /\ rl.pc_rd = "loop"
  /\ IF rl.seek_req
     THEN \E ok \in BOOLEAN :
            LET a == [rl EXCEPT
                        !.pending = NoSeekCall,
                        !.ignored = NoSeekCall,
                        !.unserved = @ - 1,
                        !.restarts = IF ok /\ rl.pending.by = "reader"
                                     THEN @ + 1 ELSE @,
                        !.restart_failed =
                           @ \/ (~ok /\ rl.pending.by = "reader"),
                        !.left = IF ok THEN MaxPackets ELSE @,
                        !.seek_req = FALSE,
                        !.queue_attachments_req = TRUE,
                        !.eof = FALSE,
                        !.paused = FALSE,
                        !.pc_rd = "rest"]
            IN  rl' = IF ok THEN RL_seek_flush(a) ELSE a
     ELSE rl' = [rl EXCEPT !.pc_rd = "rest"]
  /\ UNCHANGED <<mainvars, fqs, cl, sy, ck, pqs, rd, au, sk, so, vf, xs, adf, ed, chp, prc, tp>>

\* read_thread, the rest of an iteration: the attachments request is cleared;
\* with the queues full it waits and starts over; else the end-of-playback
\* test and, unless that leaves the loop, av_read_frame(): a packet, which is
\* put on its stream's queue and clears eof_, or the end of the input
RL_read_rest ==
  /\ rl.pc_rd = "rest"
  /\ rl.loop_given # 0 \/ rl.restarts < MaxLoop
  /\ LET a == [rl EXCEPT !.queue_attachments_req = FALSE]
         b == RL_end_check(a)
     IN  IF SK_queues_full(a)
         THEN rl' = [a EXCEPT !.pc_rd = "loop"]
         ELSE IF b.pc_rd = "done"
         THEN rl' = b
         ELSE \/ /\ b.left > 0
                 /\ \E k \in StreamKinds :
                      /\ b.open[k]
                      /\ rl' = [b EXCEPT
                                  !.q[k] = PacketQueue_put(@, DataPacket).q,
                                  !.left = @ - 1,
                                  !.eof = FALSE,
                                  !.pc_rd = "loop"]
              \/ /\ b.left = 0
                 /\ rl' = [RL_end_of_input(b) EXCEPT !.pc_rd = "loop"]
  /\ UNCHANGED <<mainvars, fqs, cl, sy, ck, pqs, rd, au, sk, so, vf, xs, adf, ed, chp, prc, tp>>

\* the decoder thread of stream kind k takes the packet at the head of its
\* queue: a packet of an old serial is discarded; the flush packet starts a
\* new segment; a data packet gives a frame, for which the frame queue must
\* have room; the null packet drains the decoder, which then reports the
\* packet's serial as finished
RL_decoder_get ==
  /\ \E k \in StreamKinds :
       /\ rl.open[k]
       /\ rl.q[k].list # <<>>
       /\ LET got == PacketQueue_get(rl.q[k], TRUE)
              taken == [rl EXCEPT !.q[k] = got.q]
          IN  IF got.serial # rl.q[k].serial
              THEN rl' = taken
              ELSE IF got.pkt = flush_pkt
              THEN rl' = [taken EXCEPT !.finished[k] = NoSerial]
              ELSE IF got.pkt = null_pkt
              THEN rl' = [taken EXCEPT !.finished[k] = got.serial]
              ELSE /\ rl.frames[k] = 0
                   /\ rl' = [taken EXCEPT !.frames[k] = 1]
  /\ UNCHANGED <<mainvars, fqs, cl, sy, ck, pqs, rd, au, sk, so, vf, xs, adf, ed, chp, prc, tp>>

\* video_refresh / the audio callback take the frame of stream kind k while
\* playback is not paused
RL_frame_next ==
  /\ ~rl.paused
  /\ \E k \in StreamKinds :
       /\ rl.frames[k] > 0
       /\ rl' = [rl EXCEPT !.frames[k] = 0]
  /\ UNCHANGED <<mainvars, fqs, cl, sy, ck, pqs, rd, au, sk, so, vf, xs, adf, ed, chp, prc, tp>>

\* read_thread reaches its loop with the video stream open, with or without
\* an audio stream; the loop count and autoexit are options of the run
InitLoop ==
  /\ MainVarsInit
  /\ fqs = NotRunning
  /\ cl = NotRunning
  /\ sy = NotRunning
  /\ ck = NotRunning
  /\ pqs = NotRunning
  /\ rd = NotRunning
  /\ au = NotRunning
  /\ sk = NotRunning
  /\ so = NotRunning
  /\ vf = NotRunning
  /\ xs = NotRunning
  /\ adf = NotRunning
  /\ ed = NotRunning
  /\ chp = NotRunning
  /\ prc = NotRunning
  /\ tp = NotRunning
  /\ \E open \in [StreamKinds -> BOOLEAN], loop \in 0..MaxLoop,
        autoexit \in BOOLEAN :
       /\ open["video"]
       /\ ~open["subtitle"]
       /\ rl = LoopInit(open, loop, autoexit)

NextLoop ==
  \/ RL_user_seek \/ RL_toggle_pause
  \/ RL_read_seek \/ RL_read_rest
  \/ RL_decoder_get \/ RL_frame_next

SpecLoop == InitLoop /\ [][NextLoop]_vars

\* C35: a stream_seek call made while seek_req is set is ignored: seek_pos,
\* seek_rel and the byte flag behind seek_flags stay those of the pending
\* request until read_thread seeks, and read_thread seeks once for it: one
\* accepted request is outstanding exactly while seek_req is set.
C35_PendingSeekKept ==
  /\ rl.seek_req =>
       /\ rl.pending.by # "none"
       /\ rl.seek_pos = rl.pending.pos
       /\ rl.seek_rel = rl.pending.rel
       /\ rl.seek_by_bytes = rl.pending.by_bytes
       /\ rl.unserved = 1
  /\ ~rl.seek_req =>
       /\ rl.unserved = 0
       /\ rl.pending = NoSeekCall
       /\ rl.ignored = NoSeekCall

\* the user pressed a seek key while the restart requested by read_thread was
\* pending: the restart's target is still the one to be sought
C35_Witness ==
  /\ rl.seek_req
  /\ rl.pending.by = "reader"
  /\ rl.ignored.by = "main"
  /\ rl.ignored.pos = 10
  /\ rl.seek_pos = 0
  /\ ~rl.seek_by_bytes

\* read_thread has left its loop with AVERROR_EOF
C36_exited == rl.pc_rd = "done" /\ rl.ret = "AVERROR_EOF"

\* C36: with loop count L >= 2, autoexit and no failed restart seek,
\* read_thread has restarted exactly L - 1 times when it leaves with
\* AVERROR_EOF and never more than that; a restart is only requested when
\* playback is not paused and every open decoder has finished the current
\* serial with its frame queue empty; with L = 1 it never restarts; with
\* L = 0 it does not leave with AVERROR_EOF.
C36_LoopCountRestarts ==
  /\ (rl.loop_given >= 2 /\ rl.autoexit /\ ~rl.restart_failed) =>
       /\ rl.restarts <= rl.loop_given - 1
       /\ C36_exited => rl.restarts = rl.loop_given - 1
  /\ rl.loop_given = 1 => rl.restarts = 0 /\ rl.pending.by # "reader"
  /\ rl.loop_given = 0 => ~C36_exited

(***************************************************************************)
(* SpecPause: stream_toggle_pause() statement by statement, run by the     *)
(* main thread (toggle_pause, step_to_next_frame, the end of a step in     *)
(* video_refresh) and by read_thread (step_to_next_frame after a seek made *)
(* while paused).  paused_ and the clocks are not protected by a lock, so  *)
(* a SetPaused(paused_) passes either the value its thread has just stored *)
(* or the value paused_ has when the call is made.                         *)
(***************************************************************************)
\* the clocks stream_toggle_pause() sets, in the order of the calls:
\* core/video_state.cpp:1312-1314 and video_state.cpp:912-913
PauseClocks(build) ==
  IF build = "core" THEN <<"audio", "video", "subtitle">>
  ELSE <<"video", "audio">>

\* a thread that is not inside a call
IdleThread == [pc |-> "idle", op |-> "none", stored |-> FALSE, next |-> 0]

\* the session once it plays: not paused, the clocks running.  The fields
\* from completed on record what happened: whether a call has completed, the
\* value of paused_ before the main thread's last toggle_pause if that was
\* its last call, and whether its latest toggle_pause restored the value
\* paused_ had before the toggle_pause preceding it
PauseInit(build) ==
  [build |-> build, paused |-> FALSE, step |-> FALSE,
   clk |-> [k \in StreamKinds |-> FALSE],
   seek_req |-> FALSE, seeks |-> 0,
   th |-> [t \in {"main", "reader"} |-> IdleThread],
   completed |-> FALSE, before_toggle |-> "none", before_this |-> "none",
   restored |-> "none"]

\* the value of paused_ as it is recorded
PauseName(paused_) == IF paused_ THEN "paused" ELSE "playing"

\* the calls a thread makes
PauseOps(t) ==
  IF t = "main" THEN {"toggle_pause", "step_to_next_frame", "video_refresh"}
  ELSE {"step_to_next_frame"}

\* the end of a call by thread t: toggle_pause clears step,
\* step_to_next_frame sets it
TP_return(a, t) ==
  LET op == a.th[t].op
      b == [a EXCEPT !.th[t] = IdleThread,
                     !.completed = TRUE,
                     !.step = IF op = "toggle_pause" THEN FALSE
                              ELSE IF op = "step_to_next_frame" THEN TRUE
                              ELSE @]
  IN  IF t # "main" THEN b
      ELSE IF op = "toggle_pause"
      THEN [b EXCEPT !.restored = IF a.before_toggle = "none" THEN "none"
                                  ELSE IF a.before_toggle = PauseName(a.paused)
                                  THEN "yes" ELSE "no",
                     !.before_toggle = a.before_this,
                     !.before_this = "none"]
      ELSE [b EXCEPT !.before_toggle = "none", !.before_this = "none",
                     !.restored = "none"]

\* thread t enters a call; "if (paused_)" of stream_toggle_pause() unpauses
\* the video clock; step_to_next_frame() of a session that is not paused only
\* sets step
TP_call(t, op) ==
  /\ tp.th[t].pc = "idle"
  /\ op \in PauseOps(t)
  /\ t = "reader" => tp.seek_req
  /\ op = "video_refresh" => tp.step /\ ~tp.paused
  /\ LET a == [tp EXCEPT !.th[t].op = op,
                         !.seek_req = IF t = "reader" THEN FALSE ELSE @,
                         !.before_this = IF t = "main" /\ op = "toggle_pause"
                                         THEN PauseName(tp.paused) ELSE @]
     IN  IF op = "step_to_next_frame" /\ ~tp.paused
         THEN tp' = TP_return(a, t)
         ELSE tp' = [a EXCEPT !.clk["video"] = IF tp.paused THEN FALSE ELSE @,
                              !.th[t].pc = "flip"]
  /\ UNCHANGED <<mainvars, fqs, cl, sy, ck, pqs, rd, au, sk, so, vf, xs, adf, rl, ed, chp, prc>>

\* read_thread handles a seek request of a session that is not paused
TP_reader_seek ==
  /\ tp.th["reader"].pc = "idle"
  /\ tp.seek_req /\ ~tp.paused
  /\ tp' = [tp EXCEPT !.seek_req = FALSE]
  /\ UNCHANGED <<mainvars, fqs, cl, sy, ck, pqs, rd, au, sk, so, vf, xs, adf, rl, ed, chp, prc>>

\* paused_ = !paused_
TP_flip(t) ==
  /\ tp.th[t].pc = "flip"
  /\ tp' = [tp EXCEPT !.paused = ~@,
                      !.th[t].stored = ~tp.paused,
                      !.th[t].pc = "set",
                      !.th[t].next = 1]
  /\ UNCHANGED <<mainvars, fqs, cl, sy, ck, pqs, rd, au, sk, so, vf, xs, adf, rl, ed, chp, prc>>

\* the next <clock>->SetPaused(paused_) of thread t; after the last one the
\* call returns
TP_SetPaused(t) ==
  /\ tp.th[t].pc = "set"
  /\ \E arg \in {tp.th[t].stored, tp.paused} :
       LET clocks == PauseClocks(tp.build)
           i == tp.th[t].next
           a == [tp EXCEPT !.clk[clocks[i]] = arg]
       IN  tp' = IF i = Len(clocks)
                 THEN TP_return(a, t)
                 ELSE [a EXCEPT !.th[t].next = i + 1]
  /\ UNCHANGED <<mainvars, fqs, cl, sy, ck, pqs, rd, au, sk, so, vf, xs, adf, rl, ed, chp, prc>>

\* stream_seek() from the event loop
TP_stream_seek ==
  /\ tp.th["main"].pc = "idle"
  /\ ~tp.seek_req
  /\ tp.seeks < MaxSeeks
  /\ tp' = [tp EXCEPT !.seek_req = TRUE, !.seeks = @ + 1]
  /\ UNCHANGED <<mainvars, fqs, cl, sy, ck, pqs, rd, au, sk, so, vf, xs, adf, rl, ed, chp, prc>>

InitPause ==
  /\ MainVarsInit
  /\ fqs = NotRunning
  /\ cl = NotRunning
  /\ sy = NotRunning
  /\ ck = NotRunning
  /\ pqs = NotRunning
  /\ rd = NotRunning
  /\ au = NotRunning
  /\ sk = NotRunning
  /\ so = NotRunning
  /\ vf = NotRunning
  /\ xs = NotRunning
  /\ adf = NotRunning
  /\ rl = NotRunning
  /\ ed = NotRunning
  /\ chp = NotRunning
  /\ prc = NotRunning
  /\ \E build \in {"core", "video_state"} : tp = PauseInit(build)

NextPause ==
  \/ \E t \in {"main", "reader"} :
       \/ \E op \in PauseOps(t) : TP_call(t, op)
       \/ TP_flip(t)
       \/ TP_SetPaused(t)
  \/ TP_reader_seek
  \/ TP_stream_seek

SpecPause == InitPause /\ [][NextPause]_vars

\* no thread is inside toggle_pause, stream_toggle_pause or
\* step_to_next_frame, and a call has completed
C33_after_calls ==
  /\ tp.completed
  /\ \A t \in {"main", "reader"} : tp.th[t].pc = "idle"

\* C33: after every completed toggle_pause, stream_toggle_pause or
\* step_to_next_frame call (here: whenever no such call is in progress), the
\* paused flag of every stream clock the implementation has (audio, video and
\* external/subtitle) equals the session's paused_ flag, and two consecutive
\* toggle_pause calls restore the original paused_ value.
C33_ClocksFollowPaused ==
  /\ C33_after_calls =>
       \A i \in DOMAIN PauseClocks(tp.build) :
         tp.clk[PauseClocks(tp.build)[i]] = tp.paused
  /\ tp.restored # "no"

(***************************************************************************)
(* SpecEarlyDrop: get_video_frame (core/video_state.cpp:1726-1757) and     *)
(* GetVideoFrame (video_state.cpp:1447-1479) in the video decoder thread:  *)
(* decodeFrame() takes packets from the video packet queue and returns a   *)
(* picture or none, then the early-drop test runs against the master       *)
(* clock.  Beside it read_thread queues packets and flushes on a seek, the *)
(* clocks move and the filter graph's delay changes.  Times are in ms;     *)
(* serial is what video_engine_->Serial() returns for the video stream.    *)
(***************************************************************************)
\* no frame in the hands of get_video_frame
NoFrame == [got |-> FALSE, has_pts |-> FALSE, pts |-> 0]

\* the session when the video decoder thread starts; frame is the picture
\* decodeFrame() returned, ret what the last call returned
EarlyDropInit(build, av_sync_type, audio_st, framedrop) ==
  [build |-> build, av_sync_type |-> av_sync_type,
   video_st |-> TRUE, audio_st |-> audio_st, framedrop |-> framedrop,
   vclock |-> NaN, aclock |-> NaN, sclock |-> NaN,
   frame_last_filter_delay |-> 0,
   serial |-> 0, pkt_serial |-> -1, nb_packets |-> 0,
   frame |-> NoFrame, pc |-> "decode", ret |-> 0,
   frame_drops_early |-> 0]

\* the master type and clock as the build's implementation takes them
ED_master_sync_type(e) ==
  IF e.build = "core" THEN get_master_sync_type(e) ELSE GetMasterSyncType(e)

ED_master_clock(e) ==
  IF e.build = "core" THEN get_master_clock(e) ELSE GetMasterClock(e)

\* framedrop > 0 || (framedrop && master != AV_SYNC_VIDEO_MASTER)
ED_framedrop_enabled(e) ==
  e.framedrop > 0 \/ (e.framedrop # 0 /\ ED_master_sync_type(e) # "VIDEO")

\* the early-drop test that does not look at the packet queue
ED_drops_early_any_queue(e) ==
  /\ ED_framedrop_enabled(e)
  /\ e.frame.has_pts
  /\ LET diff == dsub(Dbl(e.frame.pts), ED_master_clock(e))
     IN  /\ ~diff.nan
         /\ fabs(diff.v) < AV_NOSYNC_THRESHOLD
         /\ diff.v - e.frame_last_filter_delay < 0
         /\ e.pkt_serial = e.serial

\* the test of get_video_frame, lines 1741-1748: frame dropping enabled, the
\* frame has a pts, diff = dpts - master clock is not NaN, |diff| <
\* AV_NOSYNC_THRESHOLD, diff - frame_last_filter_delay < 0, the decoder's
\* packet serial is the stream's serial and the packet queue has packets
ED_drops_early(e) ==
  /\ ED_framedrop_enabled(e)
  /\ e.frame.has_pts
  /\ LET diff == dsub(Dbl(e.frame.pts), ED_master_clock(e))
     IN  /\ ~diff.nan
         /\ fabs(diff.v) < AV_NOSYNC_THRESHOLD
         /\ diff.v - e.frame_last_filter_delay < 0
         /\ e.pkt_serial = e.serial
         /\ e.nb_packets # 0

\* read_thread puts a packet on the video packet queue
ED_put_packet ==
  /\ ed.nb_packets < MaxQueued
  /\ ed' = [ed EXCEPT !.nb_packets = @ + 1]
  /\ UNCHANGED <<mainvars, fqs, cl, sy, ck, pqs, rd, au, sk, so, vf, xs, adf, rl, chp, prc, tp>>

\* read_thread, seek: the queue is flushed, the flush packet is put and the
\* stream's serial moves on
ED_seek ==
  /\ ed.serial < MaxSeeks
  /\ ed' = [ed EXCEPT !.serial = @ + 1, !.nb_packets = 1]
  /\ UNCHANGED <<mainvars, fqs, cl, sy, ck, pqs, rd, au, sk, so, vf, xs, adf, rl, chp, prc, tp>>

\* the clocks as they read when the test is made
ED_clocks ==
  /\ \E a \in {NaN, Dbl(100), Dbl(10040)}, v \in {NaN, Dbl(100)},
        s \in {NaN, Dbl(100)} :
       ed' = [ed EXCEPT !.aclock = a, !.vclock = v, !.sclock = s]
  /\ UNCHANGED <<mainvars, fqs, cl, sy, ck, pqs, rd, au, sk, so, vf, xs, adf, rl, chp, prc, tp>>

\* video_thread, lines 2296-2299: the time the last frame spent in the
\* filter graph
ED_filter_delay ==
  /\ \E d \in {0, 50} : ed' = [ed EXCEPT !.frame_last_filter_delay = d]
  /\ UNCHANGED <<mainvars, fqs, cl, sy, ck, pqs, rd, au, sk, so, vf, xs, adf, rl, chp, prc, tp>>

\* inside decodeFrame(): the decoder takes the next packet of the queue and
\* with it the packet's serial
ED_decoder_packet ==
  /\ ed.pc = "decode"
  /\ ed.nb_packets > 0
  /\ ed' = [ed EXCEPT !.nb_packets = @ - 1, !.pkt_serial = ed.serial]
  /\ UNCHANGED <<mainvars, fqs, cl, sy, ck, pqs, rd, au, sk, so, vf, xs, adf, rl, chp, prc, tp>>

\* decodeFrame() returns: a picture with or without a pts, no picture
\* (get_video_frame returns 0), or a negative value (it returns -1)
ED_decodeFrame ==
  /\ ed.pc = "decode"
  /\ ed.pkt_serial >= 0
  /\ \/ /\ ed.frame_drops_early < MaxPictures
        /\ \E has_pts \in BOOLEAN, pts \in {40, 130} :
             /\ has_pts \/ pts = 40
             /\ ed' = [ed EXCEPT !.frame = [got |-> TRUE, has_pts |-> has_pts,
                                            pts |-> IF has_pts THEN pts ELSE 0],
                                 !.pc = "test"]
     \/ \E r \in {0, -1} : ed' = [ed EXCEPT !.ret = r]
  /\ UNCHANGED <<mainvars, fqs, cl, sy, ck, pqs, rd, au, sk, so, vf, xs, adf, rl, chp, prc, tp>>

\* get_video_frame, lines 1733-1756, with a picture: the early-drop test;
\* a dropped frame is counted and unreferenced and 0 is returned, else the
\* picture is returned (1)
ED_get_video_frame ==
  /\ ed.pc = "test"
  /\ ed' = IF ED_drops_early(ed)
           THEN [ed EXCEPT !.frame_drops_early = @ + 1, !.frame = NoFrame,
                           !.ret = 0, !.pc = "decode"]
           ELSE [ed EXCEPT !.frame = NoFrame, !.ret = 1, !.pc = "decode"]
  /\ UNCHANGED <<mainvars, fqs, cl, sy, ck, pqs, rd, au, sk, so, vf, xs, adf, rl, chp, prc, tp>>

InitEarlyDrop ==
  /\ MainVarsInit
  /\ fqs = NotRunning
  /\ cl = NotRunning
  /\ sy = NotRunning
  /\ ck = NotRunning
  /\ pqs = NotRunning
  /\ rd = NotRunning
  /\ au = NotRunning
  /\ sk = NotRunning
  /\ so = NotRunning
  /\ vf = NotRunning
  /\ xs = NotRunning
  /\ adf = NotRunning
  /\ rl = NotRunning
  /\ chp = NotRunning
  /\ prc = NotRunning
  /\ tp = NotRunning
  /\ \E build \in {"core", "new"},
        av_sync_type \in {"AUDIO", "VIDEO", "EXTERNAL"},
        audio_st \in BOOLEAN, framedrop \in {-1, 0, 1} :
       /\ build = "new" => audio_st
       /\ ed = EarlyDropInit(build, av_sync_type, audio_st, framedrop)

NextEarlyDrop ==
  \/ ED_put_packet \/ ED_seek \/ ED_clocks \/ ED_filter_delay
  \/ ED_decoder_packet \/ ED_decodeFrame \/ ED_get_video_frame

SpecEarlyDrop == InitEarlyDrop /\ [][NextEarlyDrop]_vars

\* the frame in hand lies behind the master clock once the filter delay is
\* subtracted, by less than AV_NOSYNC_THRESHOLD either way
C37_behind_master(e) ==
  LET diff == dsub(Dbl(e.frame.pts), ED_master_clock(e))
  IN  /\ ~diff.nan
      /\ diff.v < AV_NOSYNC_THRESHOLD /\ -diff.v < AV_NOSYNC_THRESHOLD
      /\ diff.v < e.frame_last_filter_delay

C37_DropStep ==
  /\ ed'.frame_drops_early # ed.frame_drops_early =>
       /\ ed'.frame_drops_early = ed.frame_drops_early + 1
       /\ ed.pc = "test" /\ ed.frame.got
       /\ ed'.ret = 0 /\ ~ed'.frame.got
       /\ ed.framedrop = 1
            \/ (ed.framedrop = -1 /\ ED_master_sync_type(ed) # "VIDEO")
       /\ ed.frame.has_pts
       /\ C37_behind_master(ed)
       /\ ed.pkt_serial = ed.serial
       /\ ed.nb_packets > 0
  \* a frame of a stale serial and the last frame before the queue runs
  \* empty are handed on
  /\ (ed.pc = "test" /\ ed'.pc = "decode"
        /\ (ed.pkt_serial # ed.serial \/ ed.nb_packets = 0))
       => /\ ed'.ret = 1
          /\ ed'.frame_drops_early = ed.frame_drops_early

\* C37: get_video_frame drops a decoded frame early (frame_drops_early + 1,
\* 0 returned) only when frame dropping is enabled for the master type, the
\* frame has a pts behind the master clock after the filter delay is
\* subtracted, the difference is a number below 10 s in size, the decoder's
\* packet serial is the video stream's serial and the video packet queue is
\* not empty; a frame of a stale serial and the last frame decoded before
\* the queue runs empty are not dropped.
C37_EarlyDropOnlyWhen == [][C37_DropStep]_vars

\* a frame 30 ms ahead of the audio master was dropped because the filter
\* graph delays it by 50 ms, with framedrop at its default of -1
C37_Witness ==
  /\ ed.frame_drops_early = 1
  /\ ed.pc = "decode" /\ ed.ret = 0
  /\ ed.framedrop = -1
  /\ ed.av_sync_type = "AUDIO" /\ ed.audio_st
  /\ ed.aclock = Dbl(100)
  /\ ed.frame_last_filter_delay = 50
  /\ ed.pkt_serial = 1 /\ ed.serial = 1
  /\ ed.nb_packets = 1

(***************************************************************************)
(* SpecChapter: seek_chapter of core/video_state.cpp (lines 1342-1367) and *)
(* SeekChapter of video_state.cpp (lines 966-990) on an input with         *)
(* chapters, called from the PAGEUP / PAGEDOWN keys with incr 1 and -1.    *)
(* Chapter k starts at 100 * (k + 1) ms and has the time base 1/1000; the  *)
(* master clock is a number of ms, so pos, in AV_TIME_BASE units, is 1000  *)
(* times it.  A call records its result; read_thread serves the request    *)
(* and playback goes on from the target.                                   *)
(***************************************************************************)
\* ic->chapters[k]->start, in units of ic->chapters[k]->time_base = 1/1000
ChapterStart(k) == 100 * (k + 1)

\* av_compare_ts(ts_a, 1/den_a, ts_b, 1/den_b): -1, 0 or 1 as ts_a / den_a is
\* below, at or above ts_b / den_b
av_compare_ts(ts_a, den_a, ts_b, den_b) ==
  IF ts_a * den_b < ts_b * den_a THEN -1
  ELSE IF ts_a * den_b > ts_b * den_a THEN 1 ELSE 0

\* av_rescale_q(a, 1/den_b, 1/den_c): a * den_c / den_b rounded to nearest
av_rescale_q(a, den_b, den_c) == (2 * a * den_c + den_b) \div (2 * den_b)

\* An unsigned int is written as the int with the same 32 bits, so that
\* 2^32 - 1 is -1: sums and differences of small values are the same in both
\* and the order of unsigned int puts the negative ints above the others
UIntLess(a, b) ==
  IF (a < 0) = (b < 0) THEN a < b ELSE b < 0

\* no call of seek_chapter / SeekChapter made yet
NoChapterCall ==
  [op |-> "none", incr |-> 0, pos |-> 0, seek |-> FALSE, chapter |-> 0,
   target |-> 0]

\* the session: nb_chapters chapters, the master clock at 0
ChapterInit(nb_chapters) ==
  [nb_chapters |-> nb_chapters, clock |-> 0,
   seek_req |-> FALSE, seek_pos |-> 0, call |-> NoChapterCall]

\* the loop "find the current chapter" of seek_chapter with int i: the index
\* of the first chapter that starts after pos, less one; nb_chapters if none
\* does
RECURSIVE find_chapter(_, _, _)
find_chapter(c, pos, i) ==
  IF i < c.nb_chapters
  THEN IF av_compare_ts(pos, 1000000, ChapterStart(i), 1000) < 0
       THEN i - 1
       ELSE find_chapter(c, pos, i + 1)
  ELSE i

\* the same loop of SeekChapter with unsigned int i: i-- at 0 gives 2^32 - 1
RECURSIVE FindChapter(_, _, _)
FindChapter(c, pos, i) ==
  IF UIntLess(i, c.nb_chapters)
  THEN IF av_compare_ts(pos, 1000000, ChapterStart(i), 1000) < 0
       THEN i - 1
       ELSE FindChapter(c, pos, i + 1)
  ELSE i

\* seek_chapter(incr): i += incr; i = FFMAX(i, 0); no seek with no chapters
\* or i >= nb_chapters; else stream_seek(start of chapter i, 0, 0)
seek_chapter(c, incr) ==
  LET pos == 1000 * c.clock
      i == FFMAX(find_chapter(c, pos, 0) + incr, 0)
  IN  IF c.nb_chapters = 0 \/ i >= c.nb_chapters
      THEN [op |-> "seek_chapter", incr |-> incr, pos |-> pos,
            seek |-> FALSE, chapter |-> 0, target |-> 0]
      ELSE [op |-> "seek_chapter", incr |-> incr, pos |-> pos,
            seek |-> TRUE, chapter |-> i,
            target |-> av_rescale_q(ChapterStart(i), 1000, 1000000)]

\* SeekChapter(incr): unsigned int ii = FFMAX(i + incr, 0), where i + incr is
\* computed in unsigned int and compared with 0 as unsigned int; no seek with
\* no chapters or ii >= nb_chapters; else StreamSeek(start of chapter ii, 0, 0)
SeekChapter(c, incr) ==
  LET pos == 1000 * c.clock
      sum == FindChapter(c, pos, 0) + incr
      ii == IF UIntLess(0, sum) THEN sum ELSE 0
  IN  IF c.nb_chapters = 0 \/ ~UIntLess(ii, c.nb_chapters)
      THEN [op |-> "SeekChapter", incr |-> incr, pos |-> pos,
            seek |-> FALSE, chapter |-> 0, target |-> 0]
      ELSE [op |-> "SeekChapter", incr |-> incr, pos |-> pos,
            seek |-> TRUE, chapter |-> ii,
            target |-> av_rescale_q(ChapterStart(ii), 1000, 1000000)]

\* stream_seek(target, 0, 0) at the end of a call that seeks: taken unless a
\* request is pending
CH_stream_seek(c, call) ==
  [c EXCEPT !.call = call,
            !.seek_pos = IF call.seek /\ ~c.seek_req THEN call.target ELSE @,
            !.seek_req = @ \/ call.seek]

\* PAGEUP / PAGEDOWN in the event loop of core/video_state.cpp
CH_seek_chapter ==
  /\ \E incr \in {1, -1} : chp' = CH_stream_seek(chp, seek_chapter(chp, incr))
  /\ UNCHANGED <<mainvars, fqs, cl, sy, ck, pqs, rd, au, sk, so, vf, xs, adf, rl, ed, prc, tp>>

\* MoveToNextFragment / MoveToPreviousFragment of video_state.cpp
CH_SeekChapter ==
  /\ \E incr \in {1, -1} : chp' = CH_stream_seek(chp, SeekChapter(chp, incr))
  /\ UNCHANGED <<mainvars, fqs, cl, sy, ck, pqs, rd, au, sk, so, vf, xs, adf, rl, ed, prc, tp>>

\* read_thread serves the request: playback goes on from the target
CH_read_seek ==
  /\ chp.seek_req
  /\ chp' = [chp EXCEPT !.seek_req = FALSE, !.clock = chp.seek_pos \div 1000]
  /\ UNCHANGED <<mainvars, fqs, cl, sy, ck, pqs, rd, au, sk, so, vf, xs, adf, rl, ed, prc, tp>>

\* playback advances by half a chapter
CH_tick ==
  /\ chp.clock < 100 * (MaxChapters + 1)
  /\ chp' = [chp EXCEPT !.clock = @ + 50]
  /\ UNCHANGED <<mainvars, fqs, cl, sy, ck, pqs, rd, au, sk, so, vf, xs, adf, rl, ed, prc, tp>>

InitChapter ==
  /\ MainVarsInit
  /\ fqs = NotRunning
  /\ cl = NotRunning
  /\ sy = NotRunning
  /\ ck = NotRunning
  /\ pqs = NotRunning
  /\ rd = NotRunning
  /\ au = NotRunning
  /\ sk = NotRunning
  /\ so = NotRunning
  /\ vf = NotRunning
  /\ xs = NotRunning
  /\ adf = NotRunning
  /\ rl = NotRunning
  /\ ed = NotRunning
  /\ prc = NotRunning
  /\ tp = NotRunning
  /\ \E nb_chapters \in 0..MaxChapters : chp = ChapterInit(nb_chapters)

NextChapter ==
  CH_seek_chapter \/ CH_SeekChapter \/ CH_read_seek \/ CH_tick

SpecChapter == InitChapter /\ [][NextChapter]_vars

\* the position of the last call lies in or before the first chapter
C39_in_first_chapter ==
  \/ chp.nb_chapters = 1
  \/ chp.nb_chapters > 1
     /\ av_compare_ts(chp.call.pos, 1000000, ChapterStart(1), 1000) < 0

\* C39: a call with incr = -1 at a position in or before the first chapter
\* seeks to the start of chapter 0; a call whose target index is at or beyond
\* the chapter count seeks nowhere; seek_chapter and SeekChapter choose the
\* same target for the position and increment of the call.
C39_ClampedAtFirstChapter ==
  chp.call.op # "none" =>
    /\ (chp.call.incr = -1 /\ chp.nb_chapters > 0 /\ C39_in_first_chapter)
         => /\ chp.call.seek
            /\ chp.call.chapter = 0
            /\ chp.call.target = 1000 * ChapterStart(0)
    /\ chp.call.seek => chp.call.chapter \in 0..(chp.nb_chapters - 1)
    /\ LET c == [chp EXCEPT !.clock = chp.call.pos \div 1000]
           old == seek_chapter(c, chp.call.incr)
           new == SeekChapter(c, chp.call.incr)
       IN  /\ old.seek = new.seek
           /\ old.chapter = new.chapter
           /\ old.target = new.target

(***************************************************************************)
(* SpecProtocol: the pending requests of a ProtocolClient                  *)
(* (protocol/protocol.h): WriteRequest and PopRequestByID on the map       *)
(* requests_queue_.  A request is a record [id, method]; the id of a       *)
(* notification is unset.  live and written record what was asked of the   *)
(* client: the ids written with success and not popped since, and the      *)
(* request and callback last written under each id.                        *)
(***************************************************************************)
\* a sequance_id_t without a value
NoId == "none"

\* the ids of requests
RequestIds == {"1", "2"}

\* the requests a caller writes
Requests == [id : RequestIds \cup {NoId}, method : {"ping", "info"}]

\* the callbacks a caller passes; callback_t() is the empty one
Callbacks == {"callback_t()", "on_reply"}

\* no entry under an id of requests_queue_
NoEntry == [request |-> [id |-> NoId, method |-> "none"], cb |-> "none"]

\* no call made yet
NoProtocolCall ==
  [op |-> "none", sid |-> NoId, err |-> FALSE, ret |-> FALSE,
   req |-> NoEntry.request, cb |-> "none"]

\* a ProtocolClient after construction: requests_queue_ is empty
ProtocolInit ==
  [requests_queue_ |-> [id \in RequestIds \cup {NoId} |-> NoEntry],
   call |-> NoProtocolCall,
   live |-> {}, written |-> [id \in RequestIds |-> NoEntry]]

\* request_t::IsNotification(): the request carries no id
IsNotification(request) == request.id = NoId

\* PopRequestByID that leaves the entry in the map
PopRequestByID_keeps_entry(p, sid, req, cb) ==
  IF ~req \/ sid = NoId
  THEN [p EXCEPT !.call = [NoProtocolCall EXCEPT !.op = "PopRequestByID",
                                                 !.sid = sid]]
  ELSE IF p.requests_queue_[sid] = NoEntry
  THEN [p EXCEPT !.call = [NoProtocolCall EXCEPT !.op = "PopRequestByID",
                                                 !.sid = sid]]
  ELSE LET it == p.requests_queue_[sid]
       IN  [p EXCEPT !.call = [op |-> "PopRequestByID", sid |-> sid,
                               err |-> FALSE, ret |-> TRUE,
                               req |-> it.request,
                               cb |-> IF cb THEN it.cb ELSE "none"]]

\* WriteRequest(request, cb): detail::WriteRequest() fails (err) or not; if
\* (!err && !request.IsNotification()) requests_queue_[request.id] =
\* make_pair(request, cb)
WriteRequest(p, request, cb, err) ==
  [p EXCEPT !.requests_queue_ =
               IF ~err /\ ~IsNotification(request)
               THEN [@ EXCEPT ![request.id] = [request |-> request, cb |-> cb]]
               ELSE @,
            !.call = [NoProtocolCall EXCEPT !.op = "WriteRequest",
                                            !.sid = request.id,
                                            !.err = err]]

\* PopRequestByID(sid, req, cb), req and cb telling whether the pointers are
\* given: false if (!req || !sid) or sid is not found; else *req and, with
\* cb given, *cb are set, the entry is erased and true is returned
PopRequestByID(p, sid, req, cb) ==
  IF ~req \/ sid = NoId
  THEN [p EXCEPT !.call = [NoProtocolCall EXCEPT !.op = "PopRequestByID",
                                                 !.sid = sid]]
  ELSE IF p.requests_queue_[sid] = NoEntry
  THEN [p EXCEPT !.call = [NoProtocolCall EXCEPT !.op = "PopRequestByID",
                                                 !.sid = sid]]
  ELSE LET it == p.requests_queue_[sid]
       IN  [p EXCEPT !.requests_queue_[sid] = NoEntry,
                     !.call = [op |-> "PopRequestByID", sid |-> sid,
                               err |-> FALSE, ret |-> TRUE,
                               req |-> it.request,
                               cb |-> IF cb THEN it.cb ELSE "none"]]

\* a caller writes a request or a notification
PRC_WriteRequest ==
  /\ \E request \in Requests, cb \in Callbacks, err \in BOOLEAN :
       LET stored == ~err /\ request.id # NoId
       IN  prc' = [WriteRequest(prc, request, cb, err) EXCEPT
                     !.live = IF stored THEN @ \cup {request.id} ELSE @,
                     !.written = IF stored
                                 THEN [@ EXCEPT ![request.id] =
                                         [request |-> request, cb |-> cb]]
                                 ELSE @]
  /\ UNCHANGED <<mainvars, fqs, cl, sy, ck, pqs, rd, au, sk, so, vf, xs, adf, rl, ed, chp, tp>>

\* a response with the id sid has come in and its request is looked up
PRC_PopRequestByID ==
  /\ \E sid \in RequestIds \cup {NoId}, req \in BOOLEAN, cb \in BOOLEAN :
       LET after == PopRequestByID(prc, sid, req, cb)
       IN  prc' = [after EXCEPT
                     !.live = IF after.call.ret THEN @ \ {sid} ELSE @]
  /\ UNCHANGED <<mainvars, fqs, cl, sy, ck, pqs, rd, au, sk, so, vf, xs, adf, rl, ed, chp, tp>>

InitProtocol ==
  /\ MainVarsInit
  /\ fqs = NotRunning
  /\ cl = NotRunning
  /\ sy = NotRunning
  /\ ck = NotRunning
  /\ pqs = NotRunning
  /\ rd = NotRunning
  /\ au = NotRunning
  /\ sk = NotRunning
  /\ so = NotRunning
  /\ vf = NotRunning
  /\ xs = NotRunning
  /\ adf = NotRunning
  /\ rl = NotRunning
  /\ ed = NotRunning
  /\ chp = NotRunning
  /\ tp = NotRunning
  /\ prc = ProtocolInit

NextProtocol == PRC_WriteRequest \/ PRC_PopRequestByID

SpecProtocol == InitProtocol /\ [][NextProtocol]_vars

\* the ids that have an entry in requests_queue_
C40_pending(p) ==
  {id \in RequestIds \cup {NoId} : p.requests_queue_[id] # NoEntry}

C40_CallStep ==
  \* the map holds the ids written and not popped since, each with the
  \* request and callback last written under it
  /\ C40_pending(prc') = prc'.live
  /\ \A id \in prc'.live : prc'.requests_queue_[id] = prc'.written[id]
  \* a write that fails and a notification add nothing
  /\ (prc'.call.op = "WriteRequest"
        /\ (prc'.call.err \/ prc'.call.sid = NoId))
       => prc'.requests_queue_ = prc.requests_queue_
  \* a pop that returns false changes nothing, and a pop of an unset or
  \* unknown id returns false
  /\ (prc'.call.op = "PopRequestByID" /\ ~prc'.call.ret)
       => prc'.requests_queue_ = prc.requests_queue_
  /\ (prc'.call.op = "PopRequestByID"
        /\ (prc'.call.sid = NoId \/ prc'.call.sid \notin prc.live))
       => ~prc'.call.ret
  \* a pop that returns true gives the stored request, the stored callback
  \* when one is asked for, and removes the entry and no other
  /\ (prc'.call.op = "PopRequestByID" /\ prc'.call.ret)
       => /\ prc'.call.req = prc.written[prc'.call.sid].request
          /\ prc'.call.req.id = prc'.call.sid
          /\ prc'.call.cb \in {"none", prc.written[prc'.call.sid].cb}
          /\ prc'.requests_queue_ =
               [prc.requests_queue_ EXCEPT ![prc'.call.sid] = NoEntry]
          /\ prc'.call.sid \notin C40_pending(prc')

\* C40: after every WriteRequest and PopRequestByID call the map holds
\* exactly the ids of the requests that are no notifications, were written
\* with success and have not been popped since; a failed write and a
\* notification add nothing; PopRequestByID with an unset or unknown id or
\* without an output request returns false and changes nothing; a pop that
\* succeeds returns the stored request and callback and removes the entry,
\* so a second pop of the id fails until it is written again.
C40_PendingRequestsMap == [][C40_CallStep]_vars

\* request "2" is pending and request "1" has just been popped with its
\* callback
C40_Witness ==
  /\ prc.call.op = "PopRequestByID" /\ prc.call.ret
  /\ prc.call.sid = "1" /\ prc.call.req = [id |-> "1", method |-> "info"]
  /\ prc.call.cb = "on_reply"
  /\ prc.live = {"2"}
  /\ prc.requests_queue_["1"] = NoEntry
  /\ prc.requests_queue_["2"].request.method = "ping"

====
